---- MODULE Spec2Model ----
(***************************************************************************)
(* Model of the MLS chat server (the planner/filter variant of server.js): *)
(* the CSV-backed store, the field resolver, the filter engine, the        *)
(* process-wide conversation state (lastList, lastListing) and the         *)
(* /api/chat handler with its single suspension point at the planner call. *)
(*                                                                         *)
(* JavaScript strings are sequences of one-character strings.  The values  *)
(* null and undefined, where a string may also occur, are the one-element  *)
(* sequences Null and Undefined, whose element is not a character.         *)
(***************************************************************************)
EXTENDS Integers, Sequences, FiniteSets, TLC

VARIABLES mlsRows, mlsColumns, lastList, lastListing, hasKey, reqs, sent, call, hist, browser

vars == <<mlsRows, mlsColumns, lastList, lastListing, hasKey, reqs, sent, call, hist, browser>>

(***************************************************************************)
(* JavaScript values and string primitives                                 *)
(***************************************************************************)
Null == <<"<null>">>

Undefined == <<"<undefined>">>

\* Object.prototype.constructor and Object.prototype itself: what a plain
\* object literal yields for the keys "constructor" and "__proto__".
ObjectFunction == <<"<function Object>">>

ObjectPrototype == <<"<Object.prototype>">>

NotStrings == {Null, Undefined, ObjectFunction, ObjectPrototype}

\* JavaScript truthiness of a string-or-null value.
Truthy(v) == v \notin {Null, Undefined, <<>>}

\* a || b
OrElse(a, b) == IF Truthy(a) THEN a ELSE b

UpperChars == <<"A","B","C","D","E","F","G","H","I","J","K","L","M","N","O","P","Q","R","S","T","U","V","W","X","Y","Z">>

LowerChars == <<"a","b","c","d","e","f","g","h","i","j","k","l","m","n","o","p","q","r","s","t","u","v","w","x","y","z">>

DigitChars == <<"0","1","2","3","4","5","6","7","8","9">>

Range(s) == {s[i] : i \in DOMAIN s}

UpperSet == Range(UpperChars)

\* the regular-expression class \w
WordSet == Range(UpperChars) \cup Range(LowerChars) \cup Range(DigitChars) \cup {"_"}

LowerOfUpper == [c \in UpperSet |-> LowerChars[CHOOSE i \in DOMAIN UpperChars : UpperChars[i] = c]]

LowerChar(c) == IF c \in UpperSet THEN LowerOfUpper[c] ELSE c

\* String.prototype.toLowerCase
ToLowerCase(s) == [i \in DOMAIN s |-> LowerChar(s[i])]

IsSpace(c) == c = " "

IsWord(c) == c \in WordSet

RECURSIVE TrimStart(_)
TrimStart(s) == IF s # <<>> /\ IsSpace(Head(s)) THEN TrimStart(Tail(s)) ELSE s

RECURSIVE TrimEnd(_)
TrimEnd(s) ==
  IF s # <<>> /\ IsSpace(s[Len(s)]) THEN TrimEnd(SubSeq(s, 1, Len(s) - 1)) ELSE s

\* String.prototype.trim
Trim(s) == TrimEnd(TrimStart(s))

\* String.prototype.includes
Includes(s, sub) ==
  \E i \in 0..(Len(s) - Len(sub)) : SubSeq(s, i + 1, i + Len(sub)) = sub

\* String(v) for a string-or-null value.
StringOf(v) ==
  CASE v = Null -> <<"n","u","l","l">>
    [] v = Undefined -> <<"u","n","d","e","f","i","n","e","d">>
    [] v = ObjectFunction -> <<"f","u","n","c","t","i","o","n"," ","O","b","j","e","c","t","(",")"," ","{"," ","[","n","a","t","i","v","e"," ","c","o","d","e","]"," ","}">>
    [] v = ObjectPrototype -> <<"[","o","b","j","e","c","t"," ","O","b","j","e","c","t","]">>
    [] OTHER -> v

RECURSIVE JoinWith(_, _)
\* Array.prototype.join
JoinWith(parts, sep) ==
  IF parts = <<>> THEN <<>>
  ELSE IF Len(parts) = 1 THEN parts[1]
  ELSE parts[1] \o sep \o JoinWith(Tail(parts), sep)

RECURSIVE FilterBoolean(_)
\* Array.prototype.filter(Boolean)
FilterBoolean(parts) ==
  IF parts = <<>> THEN <<>>
  ELSE IF Truthy(Head(parts)) THEN <<Head(parts)>> \o FilterBoolean(Tail(parts))
  ELSE FilterBoolean(Tail(parts))

(***************************************************************************)
(* Column names used by the code, and the synonym table                    *)
(***************************************************************************)
BathroomsTotalInteger == <<"B","a","t","h","r","o","o","m","s","T","o","t","a","l","I","n","t","e","g","e","r">>

BedroomsTotal == <<"B","e","d","r","o","o","m","s","T","o","t","a","l">>

City == <<"C","i","t","y">>

CumulativeDaysOnMarket == <<"C","u","m","u","l","a","t","i","v","e","D","a","y","s","O","n","M","a","r","k","e","t">>

CurrentPrice == <<"C","u","r","r","e","n","t","P","r","i","c","e">>

DaysOnMarket == <<"D","a","y","s","O","n","M","a","r","k","e","t">>

HighSchoolDistrict == <<"H","i","g","h","S","c","h","o","o","l","D","i","s","t","r","i","c","t">>

ListPrice == <<"L","i","s","t","P","r","i","c","e">>

ListingTerms == <<"L","i","s","t","i","n","g","T","e","r","m","s">>

LivingArea == <<"L","i","v","i","n","g","A","r","e","a">>

PostalCode == <<"P","o","s","t","a","l","C","o","d","e">>

PublicRemarks == <<"P","u","b","l","i","c","R","e","m","a","r","k","s">>

StateOrProvince == <<"S","t","a","t","e","O","r","P","r","o","v","i","n","c","e">>

StreetDirPrefix == <<"S","t","r","e","e","t","D","i","r","P","r","e","f","i","x">>

StreetName == <<"S","t","r","e","e","t","N","a","m","e">>

StreetNumber == <<"S","t","r","e","e","t","N","u","m","b","e","r">>

StreetNumberNumeric == <<"S","t","r","e","e","t","N","u","m","b","e","r","N","u","m","e","r","i","c">>

StreetSuffix == <<"S","t","r","e","e","t","S","u","f","f","i","x">>

YearBuilt == <<"Y","e","a","r","B","u","i","l","t">>

synonyms ==
  <<<<<<"a","d","d","r","e","s","s">>, Null>>,
    <<<<"b","e","d","s">>, BedroomsTotal>>,
    <<<<"b","e","d","r","o","o","m","s">>, BedroomsTotal>>,
    <<<<"b","a","t","h","s">>, BathroomsTotalInteger>>,
    <<<<"b","a","t","h","r","o","o","m","s">>, BathroomsTotalInteger>>,
    <<<<"p","r","i","c","e">>, ListPrice>>,
    <<<<"c","u","r","r","e","n","t"," ","p","r","i","c","e">>, CurrentPrice>>,
    <<<<"d","o","m">>, DaysOnMarket>>,
    <<<<"d","a","y","s"," ","o","n"," ","m","a","r","k","e","t">>, DaysOnMarket>>,
    <<<<"c","d","o","m">>, CumulativeDaysOnMarket>>,
    <<<<"c","u","m","u","l","a","t","i","v","e"," ","d","a","y","s"," ","o","n"," ","m","a","r","k","e","t">>, CumulativeDaysOnMarket>>,
    <<<<"z","i","p","c","o","d","e">>, PostalCode>>,
    <<<<"z","i","p"," ","c","o","d","e">>, PostalCode>>,
    <<<<"p","o","s","t","a","l"," ","c","o","d","e">>, PostalCode>>,
    <<<<"z","i","p">>, PostalCode>>,
    <<<<"s","q","f","t">>, LivingArea>>,
    <<<<"s","q","u","a","r","e"," ","f","o","o","t","a","g","e">>, LivingArea>>,
    <<<<"d","e","s","c","r","i","p","t","i","o","n">>, PublicRemarks>>,
    <<<<"r","e","m","a","r","k","s">>, PublicRemarks>>,
    <<<<"l","o","a","n"," ","t","e","r","m","s">>, ListingTerms>>,
    <<<<"f","i","n","a","n","c","i","n","g">>, ListingTerms>>,
    <<<<"h","i","g","h"," ","s","c","h","o","o","l"," ","d","i","s","t","r","i","c","t">>, HighSchoolDistrict>>,
    <<<<"y","e","a","r"," ","b","u","i","l","t">>, YearBuilt>>>>

\* synonyms[key]: an own property of the object literal, else what the
\* prototype chain of a plain object yields.  The key is always lower case,
\* so of the inherited names only "constructor" and "__proto__" can match.
SynonymKeys == {synonyms[i][1] : i \in DOMAIN synonyms}

SynonymOwn == [k \in SynonymKeys |-> synonyms[CHOOSE i \in DOMAIN synonyms : synonyms[i][1] = k][2]]

SynonymsGet(key) ==
  IF key \in SynonymKeys THEN SynonymOwn[key]
  ELSE IF key = <<"c","o","n","s","t","r","u","c","t","o","r">> THEN ObjectFunction
  ELSE IF key = <<"_","_","p","r","o","t","o","_","_">> THEN ObjectPrototype
  ELSE Undefined

(***************************************************************************)
(* Rows: a row object has an identity (oid), its keys in insertion order    *)
(* and its cells                                                           *)
(***************************************************************************)
Row(oid, cols, vals) ==
  [oid |-> oid, keys |-> cols,
   cells |-> [k \in Range(cols) |-> vals[CHOOSE i \in DOMAIN cols : cols[i] = k]]]

\* row[key]: the property named String(key), undefined when the row has none
Get(row, key) ==
  IF key \in NotStrings
    THEN (IF StringOf(key) \in DOMAIN row.cells THEN row.cells[StringOf(key)] ELSE Undefined)
    ELSE (IF key \in DOMAIN row.cells THEN row.cells[key] ELSE Undefined)

\* Object.keys(row)
ObjectKeys(row) == row.keys

\* Mutant of IndexOf: the position is reported 1-based.
IndexOfOneBased(rows, row) ==
  IF \E i \in DOMAIN rows : rows[i].oid = row.oid
    THEN CHOOSE i \in DOMAIN rows : rows[i].oid = row.oid
    ELSE -1

\* Array.prototype.indexOf on mlsRows: search by object identity, -1 if absent.
IndexOf(rows, row) ==
  IF \E i \in DOMAIN rows : rows[i].oid = row.oid
    THEN (CHOOSE i \in DOMAIN rows : rows[i].oid = row.oid /\ \A j \in 1..(i - 1) : rows[j].oid # row.oid) - 1
    ELSE -1

\* mlsRows[i] with a JavaScript (0-based) index
RowAt(i) == mlsRows[i + 1]

NullObj == [isNull |-> TRUE]

\* no page is open
NoBrowser == [open |-> FALSE]

(***************************************************************************)
(* Address synthesis and address lookup                                    *)
(***************************************************************************)
\* Mutant of formatAddress: empty parts are not dropped before the join.
formatAddressKeepsEmpty(row) ==
  LET num == OrElse(OrElse(Get(row, StreetNumberNumeric), Get(row, StreetNumber)), <<>>)
      dirPre == OrElse(Get(row, StreetDirPrefix), <<>>)
      name == OrElse(Get(row, StreetName), <<>>)
      suffix == OrElse(Get(row, StreetSuffix), <<>>)
      city == OrElse(Get(row, City), <<>>)
      state == OrElse(Get(row, StateOrProvince), <<"C","A">>)
      zip == OrElse(Get(row, PostalCode), <<>>)
      parts == <<JoinWith(FilterBoolean(<<num, dirPre, name, suffix>>), <<" ">>),
                 city, state, zip>>
  IN JoinWith(parts, <<",", " ">>)

formatAddress(row) ==
  LET num == OrElse(OrElse(Get(row, StreetNumberNumeric), Get(row, StreetNumber)), <<>>)
      dirPre == OrElse(Get(row, StreetDirPrefix), <<>>)
      name == OrElse(Get(row, StreetName), <<>>)
      suffix == OrElse(Get(row, StreetSuffix), <<>>)
      city == OrElse(Get(row, City), <<>>)
      state == OrElse(Get(row, StateOrProvince), <<"C","A">>)
      zip == OrElse(Get(row, PostalCode), <<>>)
      parts == FilterBoolean(<<JoinWith(FilterBoolean(<<num, dirPre, name, suffix>>), <<" ">>),
                               city, state, zip>>)
  IN JoinWith(parts, <<",", " ">>)

RECURSIVE CollapseSpaces(_)
\* replace(/\s+/g, ' ')
CollapseSpaces(s) ==
  IF s = <<>> THEN <<>>
  ELSE IF IsSpace(Head(s))
    THEN <<" ">> \o CollapseSpaces(TrimStart(s))
    ELSE <<Head(s)>> \o CollapseSpaces(Tail(s))

normalizeAddressLike(str) ==
  IF ~Truthy(str) THEN <<>>
  ELSE LET lower == ToLowerCase(StringOf(str))
           punct == [i \in DOMAIN lower |->
                       IF IsWord(lower[i]) \/ IsSpace(lower[i]) THEN lower[i] ELSE " "]
       IN Trim(CollapseSpaces(punct))

RECURSIVE FindBest(_, _, _)
\* the forEach loop of findListingByAddressLike, from row i on
FindBest(textNorm, i, best) ==
  IF i >= Len(mlsRows) THEN best
  ELSE LET row == RowAt(i)
           addr == formatAddress(row)
           addrNorm == normalizeAddressLike(addr)
       IN IF ~Truthy(addrNorm) THEN FindBest(textNorm, i + 1, best)
          ELSE IF (Includes(textNorm, addrNorm) \/ Includes(addrNorm, textNorm))
                  /\ (best = NullObj \/ Len(addrNorm) < Len(best.addrNorm))
            THEN FindBest(textNorm, i + 1,
                          [rowIndex |-> i, row |-> row, addr |-> addr, addrNorm |-> addrNorm])
            ELSE FindBest(textNorm, i + 1, best)

findListingByAddressLike(text) ==
  IF ~Truthy(text) THEN NullObj
  ELSE LET best == FindBest(normalizeAddressLike(text), 0, NullObj)
       IN IF best = NullObj THEN NullObj
          ELSE [rowIndex |-> best.rowIndex, row |-> best.row, displayAddress |-> best.addr]

\* server.js normalizes the needle and the addresses by
\* toLowerCase().replace(/\s+/g, ' ').trim(): punctuation is kept
NormalizeNeedle(text) == Trim(CollapseSpaces(ToLowerCase(text)))

RECURSIVE ServerFindBest(_, _, _)
\* the forEach loop of server.js's findListingByAddressLike, from row i on:
\* only an address containing the needle matches, and best.addr holds the
\* address as formatted, not as normalized
ServerFindBest(needle, i, best) ==
  IF i >= Len(mlsRows) THEN best
  ELSE LET row == RowAt(i)
           addr == NormalizeNeedle(formatAddress(row))
       IN IF ~Truthy(addr) THEN ServerFindBest(needle, i + 1, best)
          ELSE IF Includes(addr, needle)
                  /\ (best = NullObj \/ Len(addr) < Len(best.addr))
            THEN ServerFindBest(needle, i + 1,
                                [rowIndex |-> i, row |-> row, addr |-> formatAddress(row)])
            ELSE ServerFindBest(needle, i + 1, best)

\* findListingByAddressLike of server.js
ServerFindListingByAddressLike(text) ==
  IF ~Truthy(text) THEN NullObj
  ELSE LET best == ServerFindBest(NormalizeNeedle(text), 0, NullObj)
       IN IF best = NullObj THEN NullObj
          ELSE [rowIndex |-> best.rowIndex, row |-> best.row, displayAddress |-> best.addr]

(***************************************************************************)
(* Field resolver                                                          *)
(***************************************************************************)
\* Array.prototype.find: the first element satisfying the test, else undefined
FindFirst(seq, Test(_)) ==
  IF \E i \in DOMAIN seq : Test(seq[i])
    THEN seq[CHOOSE i \in DOMAIN seq : Test(seq[i]) /\ \A j \in 1..(i - 1) : ~Test(seq[j])]
    ELSE Undefined

getColumnNameFromUserField(userField) ==
  IF ~Truthy(userField) THEN Null
  ELSE LET f == Trim(StringOf(userField))
           lower == ToLowerCase(f)
           exactInsensitive == FindFirst(mlsColumns, LAMBDA c : ToLowerCase(c) = lower)
           contains == FindFirst(mlsColumns, LAMBDA c : Includes(ToLowerCase(c), lower))
       IN IF f \in Range(mlsColumns) THEN f
          ELSE IF SynonymsGet(lower) # Undefined THEN SynonymsGet(lower)
          ELSE IF Truthy(exactInsensitive) THEN exactInsensitive
          ELSE IF Truthy(contains) THEN contains
          ELSE Null

(***************************************************************************)
(* Filter engine                                                           *)
(***************************************************************************)
\* JSON values of a predicate's value, of plan.index and of plan.limit
JNum(n) == [t |-> "number", n |-> n]

JStr(s) == [t |-> "string", s |-> s]

JNull == [t |-> "null"]

JUndefined == [t |-> "undefined"]

JArr(a) == [t |-> "array", a |-> a]

\* a JSON object such as {"toString": null}: String(value) throws a TypeError
JUnprintable == [t |-> "object", printable |-> FALSE]

\* JavaScript numbers: an integer or NaN
NaN == [nan |-> TRUE]

Num(n) == [nan |-> FALSE, n |-> n]

DigitSet == Range(DigitChars)

RECURSIVE DigitsValue(_)
DigitsValue(s) ==
  IF s = <<>> THEN 0
  ELSE 10 * DigitsValue(SubSeq(s, 1, Len(s) - 1))
       + (CHOOSE d \in 0..9 : DigitChars[d + 1] = s[Len(s)])

\* Number(s) for a string of letters, digits, spaces and punctuation that is
\* not a signed, fractional, exponent or radix literal: white space is
\* trimmed, the empty string is 0, a digit string is its value, the rest NaN.
NumberOfString(s) ==
  LET t == Trim(s)
  IN IF t = <<>> THEN Num(0)
     ELSE IF \A i \in DOMAIN t : t[i] \in DigitSet THEN Num(DigitsValue(t))
     ELSE NaN

\* Number(raw) for a cell (string, null or undefined)
NumberOfCell(raw) ==
  CASE raw = Undefined -> NaN
    [] raw = Null -> Num(0)
    [] raw \in {ObjectFunction, ObjectPrototype} -> NaN
    [] OTHER -> NumberOfString(raw)

\* Number(value) for a JSON value
NumberOfJson(v) ==
  CASE v.t = "number" -> Num(v.n)
    [] v.t = "null" -> Num(0)
    [] v.t = "string" -> NumberOfString(v.s)
    [] OTHER -> NaN

RECURSIVE NatToString(_)
NatToString(n) ==
  IF n < 10 THEN <<DigitChars[n + 1]>>
  ELSE NatToString(n \div 10) \o <<DigitChars[(n % 10) + 1]>>

\* String(value) for a JSON value (numbers here are non-negative integers)
StringOfJson(v) ==
  CASE v.t = "number" -> NatToString(v.n)
    [] v.t = "null" -> StringOf(Null)
    [] v.t = "string" -> v.s
    [] OTHER -> StringOf(Undefined)

\* Mutant of applyFilter: an unrecognized operator fails.
applyFilterStrict(row, filter) ==
  LET colName == getColumnNameFromUserField(filter.column)
      raw == Get(row, colName)
      val == IF raw \in {Null, Undefined} THEN <<>> ELSE StringOf(raw)
      numVal == NumberOfCell(raw)
      numTarget == NumberOfJson(filter.value)
      target == ToLowerCase(StringOfJson(filter.value))
  IN IF ~Truthy(colName) THEN FALSE
     ELSE CASE filter.op = "eq" -> ToLowerCase(val) = target
            [] filter.op = "neq" -> ToLowerCase(val) # target
            [] filter.op = "contains" -> Includes(ToLowerCase(val), target)
            [] filter.op = "not_contains" -> ~Includes(ToLowerCase(val), target)
            [] filter.op = "gt" -> IF numVal.nan \/ numTarget.nan THEN FALSE ELSE numVal.n > numTarget.n
            [] filter.op = "ge" -> IF numVal.nan \/ numTarget.nan THEN FALSE ELSE numVal.n >= numTarget.n
            [] filter.op = "lt" -> IF numVal.nan \/ numTarget.nan THEN FALSE ELSE numVal.n < numTarget.n
            [] filter.op = "le" -> IF numVal.nan \/ numTarget.nan THEN FALSE ELSE numVal.n <= numTarget.n
            [] filter.op = "exists" -> Trim(val) # <<>>
            [] filter.op = "not_exists" -> Trim(val) = <<>>
            [] OTHER -> FALSE

applyFilter(row, filter) ==
  LET colName == getColumnNameFromUserField(filter.column)
      raw == Get(row, colName)
      val == IF raw \in {Null, Undefined} THEN <<>> ELSE StringOf(raw)
      numVal == NumberOfCell(raw)
      numTarget == NumberOfJson(filter.value)
      target == ToLowerCase(StringOfJson(filter.value))
  IN IF ~Truthy(colName) THEN FALSE
     ELSE CASE filter.op = "eq" -> ToLowerCase(val) = target
            [] filter.op = "neq" -> ToLowerCase(val) # target
            [] filter.op = "contains" -> Includes(ToLowerCase(val), target)
            [] filter.op = "not_contains" -> ~Includes(ToLowerCase(val), target)
            [] filter.op = "gt" -> IF numVal.nan \/ numTarget.nan THEN FALSE ELSE numVal.n > numTarget.n
            [] filter.op = "ge" -> IF numVal.nan \/ numTarget.nan THEN FALSE ELSE numVal.n >= numTarget.n
            [] filter.op = "lt" -> IF numVal.nan \/ numTarget.nan THEN FALSE ELSE numVal.n < numTarget.n
            [] filter.op = "le" -> IF numVal.nan \/ numTarget.nan THEN FALSE ELSE numVal.n <= numTarget.n
            [] filter.op = "exists" -> Trim(val) # <<>>
            [] filter.op = "not_exists" -> Trim(val) = <<>>
            [] OTHER -> TRUE

\* Mutant of filterRows: a row is kept when some predicate passes.
filterRowsAny(filters) ==
  IF Len(filters) = 0 THEN mlsRows
  ELSE SelectSeq(mlsRows, LAMBDA row : \E i \in DOMAIN filters : applyFilter(row, filters[i]))

\* filters is an array here: the handler replaces anything else by []
filterRows(filters) ==
  IF Len(filters) = 0 THEN mlsRows
  ELSE SelectSeq(mlsRows, LAMBDA row : \A i \in DOMAIN filters : applyFilter(row, filters[i]))

(***************************************************************************)
(* Conversation state: list and single-listing resolution                  *)
(***************************************************************************)
\* Array.prototype.map
MapSeq(F(_), s) == IF Len(s) = 0 THEN <<>> ELSE [i \in 1..Len(s) |-> F(s[i])]

\* Array.prototype.slice(0, end)
Slice(s, end) ==
  LET n == Len(s)
      e == IF end < 0 THEN (IF n + end < 0 THEN 0 ELSE n + end)
           ELSE (IF end > n THEN n ELSE end)
  IN SubSeq(s, 1, e)

\* Mutant of ItemAt: the index is not shifted to the 0-based position.
ItemAtUnshifted(arr, i) == IF i + 1 \in 0..(Len(arr) - 1) THEN arr[i + 2] ELSE NullObj

\* arr[i] with a JavaScript (0-based) index: undefined outside the array
ItemAt(arr, i) == IF i \in 0..(Len(arr) - 1) THEN arr[i + 1] ELSE NullObj

\* the default list limit
DefaultLimit == 100

\* Mutant of ensureListingFromIndex: a successful lookup does not update
\* lastListing.
ensureListingFromIndexForgets(index) ==
  IF Len(lastList) = 0
    THEN [error |-> [t |-> "text", msg |-> "no_recent_list"], lastListing |-> lastListing]
  ELSE LET item == ItemAt(lastList, index - 1)
       IN IF item = NullObj
            THEN [error |-> [t |-> "text", msg |-> "no_listing_at", index |-> index],
                  lastListing |-> lastListing]
          ELSE LET row == RowAt(item.rowIndex)
                   displayAddress == OrElse(item.displayAddress, formatAddress(row))
               IN [error |-> NullObj, row |-> row, displayAddress |-> displayAddress,
                   lastListing |-> lastListing]

\* Mutant of ensureListingFromIndex: the row is taken at the list position,
\* not at the row index of the list entry.
ensureListingFromIndexByPosition(index) ==
  IF Len(lastList) = 0
    THEN [error |-> [t |-> "text", msg |-> "no_recent_list"], lastListing |-> lastListing]
  ELSE LET item == ItemAt(lastList, index - 1)
       IN IF item = NullObj
            THEN [error |-> [t |-> "text", msg |-> "no_listing_at", index |-> index],
                  lastListing |-> lastListing]
          ELSE LET row == RowAt(index - 1)
                   displayAddress == OrElse(item.displayAddress, formatAddress(row))
               IN [error |-> NullObj, row |-> row, displayAddress |-> displayAddress,
                   lastListing |-> [rowIndex |-> item.rowIndex,
                                    displayAddress |-> displayAddress, row |-> row]]

\* Returns the outcome (error is NullObj on success) and the value lastListing
\* has afterwards.
ensureListingFromIndex(index) ==
  IF Len(lastList) = 0
    THEN [error |-> [t |-> "text", msg |-> "no_recent_list"], lastListing |-> lastListing]
  ELSE LET item == ItemAt(lastList, index - 1)
       IN IF item = NullObj
            THEN [error |-> [t |-> "text", msg |-> "no_listing_at", index |-> index],
                  lastListing |-> lastListing]
          ELSE LET row == RowAt(item.rowIndex)
                   displayAddress == OrElse(item.displayAddress, formatAddress(row))
               IN [error |-> NullObj, row |-> row, displayAddress |-> displayAddress,
                   lastListing |-> [rowIndex |-> item.rowIndex,
                                    displayAddress |-> displayAddress, row |-> row]]

\* The reply text of formatDetails: the address line and the rendering of the
\* requested fields of the row (the default summary when fields is empty).
formatDetails(row, fields) ==
  [t |-> "details", addr |-> formatAddress(row), row |-> row, fields |-> fields]

\* Mutant of formatList: the empty result is rendered as a list of no lines.
formatListNoEmptyCheck(rows, fields, limit) ==
  LET limited == Slice(rows, IF limit # 0 THEN limit ELSE DefaultLimit)
      newList == MapSeq(LAMBDA row : [rowIndex |-> IndexOf(mlsRows, row),
                                      displayAddress |-> formatAddress(row)], limited)
  IN [lastList |-> newList,
      reply |-> [t |-> "list", n |-> Len(limited), lines |-> MapSeq(formatAddress, limited)]]

\* Mutant of formatList: an empty result returns before lastList is replaced.
formatListKeepsOnEmpty(rows, fields, limit) ==
  LET limited == Slice(rows, IF limit # 0 THEN limit ELSE DefaultLimit)
      newList == MapSeq(LAMBDA row : [rowIndex |-> IndexOf(mlsRows, row),
                                      displayAddress |-> formatAddress(row)], limited)
  IN IF Len(limited) = 0
       THEN [lastList |-> lastList, reply |-> [t |-> "count", n |-> 0]]
       ELSE [lastList |-> newList,
             reply |-> [t |-> "list", n |-> Len(limited),
                        lines |-> MapSeq(formatAddress, limited)]]

\* Mutant of formatList: the reply numbers all the rows, not the truncated ones.
formatListRendersAll(rows, fields, limit) ==
  LET limited == Slice(rows, IF limit # 0 THEN limit ELSE DefaultLimit)
      newList == MapSeq(LAMBDA row : [rowIndex |-> IndexOf(mlsRows, row),
                                      displayAddress |-> formatAddress(row)], limited)
  IN [lastList |-> newList,
      reply |-> IF Len(limited) = 0
                  THEN [t |-> "count", n |-> 0]
                  ELSE [t |-> "list", n |-> Len(limited),
                        lines |-> MapSeq(formatAddress, rows)]]

\* Returns the reply text and the value lastList has afterwards.
formatList(rows, fields, limit) ==
  LET limited == Slice(rows, IF limit # 0 THEN limit ELSE DefaultLimit)
      newList == MapSeq(LAMBDA row : [rowIndex |-> IndexOf(mlsRows, row),
                                      displayAddress |-> formatAddress(row)], limited)
  IN [lastList |-> newList,
      reply |-> IF Len(limited) = 0
                  THEN [t |-> "count", n |-> 0]
                  ELSE [t |-> "list", n |-> Len(limited),
                        lines |-> MapSeq(formatAddress, limited)]]

(***************************************************************************)
(* The stores a run may have loaded, and the inputs of a run               *)
(***************************************************************************)
Cols1 == <<StreetNumber, StreetName, StateOrProvince, PostalCode, ListPrice, BedroomsTotal>>

Store1 ==
  << Row(11, Cols1, <<<<"1","2">>, <<"M","a","i","n">>, <<>>, <<"9">>, <<"5","0","0">>, <<"3">>>>),
     Row(12, Cols1, <<<<"1","2">>, <<"M","a","i","n">>, <<>>, <<>>, <<>>, <<"2">>>>),
     Row(13, Cols1, <<<<"3","4">>, <<"M","a","i","n">>, <<>>, <<>>, <<"a","b","c">>, <<>>>>),
     Row(14, Cols1, <<<<>>, <<>>, <<"-">>, <<>>, <<"7","0">>, <<"4">>>>) >>

Cols2 == <<<<"b","e","d","s">>, <<"Z","i","p","4">>, <<"C","o","m","m","u","n","i","t","y">>,
           City, <<"U","n","i","t">>, <<"F","u","l","l","A","d","d","r","e","s","s">>>>

Store2 ==
  << Row(21, Cols2, <<<<"3">>, <<"1">>, <<"x">>, <<"L","A">>, <<"5">>, <<"y">>>>),
     Row(22, Cols2, <<<<"2">>, <<>>, <<>>, <<"L","A">>, <<>>, <<>>>>) >>

\* a CSV with no data rows, or a load failure
Store0 == <<>>

Stores == {Store0, Store1, Store2}

\* mlsColumns = Object.keys(records[0] || {})
ColumnsOf(records) == IF Len(records) = 0 THEN <<>> ELSE ObjectKeys(records[1])

Clients == {"A", "B"}

\* largest explicit list limit a plan asks for
MaxLimit == 2

\* largest listing number a plan asks for
MaxIndex == 4

\* a message content that is a JSON number, not a string
NumberContent == <<"<number>">>

\* content of the last user message of a request body
Contents ==
  { <<"H","i">>,
    <<" ","h","O","L","A"," ">>,
    <<"1","2"," ","M","a","i","n",","," ","C","A">>,
    NumberContent }

Pred(column, op, value) == [column |-> column, op |-> op, value |-> value]

FilterAll == <<>>

FilterBeds == <<Pred(<<"b","e","d","s">>, "ge", JNum(3))>>

FilterPrice ==
  <<Pred(<<"p","r","i","c","e">>, "le", JNum(600)),
    Pred(StreetName, "contains", JStr(<<"m","a","i","n">>))>>

FilterNoColumn == <<Pred(<<"x","y","z">>, "neq", JNull)>>

Plan(intent, filters, fields, targetType, index, limit, countOnly) ==
  [intent |-> intent, filters |-> filters, fields |-> fields, targetType |-> targetType,
   index |-> index, limit |-> limit, countOnly |-> countOnly]

\* JSON.parse output for the content "null"
PlanNull == NullObj

\* a list plan whose second predicate is the JSON value null
PlanNullFilter ==
  Plan("list", JArr(<<Pred(<<"b","e","d","s">>, "ge", JNum(3)), JNull>>), JNull, "", JNull, JNull, FALSE)

\* a list plan and a lookup plan whose fields hold an unprintable object
PlanUnprintableList ==
  Plan("list", JArr(FilterAll), JArr(<<JUnprintable>>), "", JNull, JNull, FALSE)

PlanUnprintableDetails ==
  Plan("details", JNull, JArr(<<JUnprintable>>), "index", JNum(1), JNull, FALSE)

\* Planner outputs as JSON values; an absent string is "".
Plans ==
  { Plan("list", JArr(FilterAll), JNull, "", JNull, l, FALSE) :
      l \in {JNull} \cup {JNum(n) : n \in -1..MaxLimit} }
  \cup { Plan("list", JArr(FilterBeds), JNull, "", JNull, l, FALSE) : l \in {JNull, JNum(1)} }
  \cup { Plan("list", JArr(f), JNull, "", JNull, JNull, FALSE) : f \in {FilterPrice, FilterNoColumn} }
  \cup { Plan("list", JArr(FilterBeds), JNull, "", JNull, JNull, TRUE) }
  \cup { Plan("list", JNull, JNull, "", JNull, JNull, FALSE) }
  \cup { Plan("details", JNull, JNull, "index", i, JNull, FALSE) :
           i \in {JNull} \cup {JNum(n) : n \in 0..MaxIndex} }
  \cup { Plan("details", JNull, JNull, tt, JNull, JNull, FALSE) : tt \in {"address", "last", ""} }
  \cup { Plan(i, JNull, JNull, "", JNull, JNull, FALSE) : i \in {"small_talk", "unknown", ""} }
  \cup { PlanNullFilter, PlanNull, PlanUnprintableList, PlanUnprintableDetails }

(***************************************************************************)
(* The /api/chat handler                                                   *)
(***************************************************************************)
Reply(body) == [status |-> 200, kind |-> "reply", body |-> body]

Error(msg) == [status |-> 500, kind |-> "error", body |-> [t |-> "error", msg |-> msg]]

Text(msg) == [t |-> "text", msg |-> msg]

\* Mutant of IsGreeting: the match is case-sensitive.
IsGreetingCaseSensitive(userText) ==
  Trim(userText) \in
    { <<"h","i">>, <<"h","e","l","l","o">>, <<"h","e","y">>, <<"h","o","l","a">> }

\* /^\s*(hi|hello|hey|hola)\s*$/i
IsGreeting(userText) ==
  ToLowerCase(Trim(userText)) \in
    { <<"h","i">>, <<"h","e","l","l","o">>, <<"h","e","y">>, <<"h","o","l","a">> }

\* Mutant of ExecuteList: a new list forgets the Last Listing.
ExecuteListClearsListing(plan) ==
  LET filters == IF plan.filters.t = "array" THEN plan.filters.a ELSE <<>>
      limit == IF plan.limit.t = "number" /\ plan.limit.n # 0 THEN plan.limit.n ELSE DefaultLimit
      rows == filterRows(filters)
      fields == IF plan.fields.t = "array" THEN plan.fields.a ELSE <<>>
      out == formatList(rows, fields, limit)
  IN IF plan.countOnly
       THEN [reply |-> [t |-> "count", n |-> Len(rows)],
             lastList |-> lastList, lastListing |-> lastListing]
       ELSE [reply |-> out.reply, lastList |-> out.lastList, lastListing |-> NullObj]

\* Mutant of ExecuteList: a Result List that is not empty is kept.
ExecuteListKeepsFirst(plan) ==
  LET filters == IF plan.filters.t = "array" THEN plan.filters.a ELSE <<>>
      limit == IF plan.limit.t = "number" /\ plan.limit.n # 0 THEN plan.limit.n ELSE DefaultLimit
      rows == filterRows(filters)
      fields == IF plan.fields.t = "array" THEN plan.fields.a ELSE <<>>
      out == formatList(rows, fields, limit)
  IN IF plan.countOnly
       THEN [reply |-> [t |-> "count", n |-> Len(rows)],
             lastList |-> lastList, lastListing |-> lastListing]
       ELSE [reply |-> out.reply,
             lastList |-> IF Len(lastList) > 0 THEN lastList ELSE out.lastList,
             lastListing |-> lastListing]

\* intent 'list'
ExecuteList(plan) ==
  LET filters == IF plan.filters.t = "array" THEN plan.filters.a ELSE <<>>
      limit == IF plan.limit.t = "number" /\ plan.limit.n # 0 THEN plan.limit.n ELSE DefaultLimit
      rows == filterRows(filters)
      fields == IF plan.fields.t = "array" THEN plan.fields.a ELSE <<>>
      out == formatList(rows, fields, limit)
  IN IF plan.countOnly
       THEN [reply |-> [t |-> "count", n |-> Len(rows)],
             lastList |-> lastList, lastListing |-> lastListing]
       ELSE [reply |-> out.reply, lastList |-> out.lastList, lastListing |-> lastListing]

\* Mutant of ExecuteDetails: the branch for targetType 'last' is missing.
ExecuteDetailsNoLast(plan, userText) ==
  LET fields == IF plan.fields.t = "array" THEN plan.fields.a ELSE <<>>
      resIdx == ensureListingFromIndex(plan.index.n)
      listing == findListingByAddressLike(userText)
  IN IF plan.targetType = "index" /\ plan.index.t = "number"
       THEN IF resIdx.error # NullObj
              THEN [reply |-> resIdx.error,
                    lastList |-> lastList, lastListing |-> resIdx.lastListing]
              ELSE [reply |-> formatDetails(resIdx.row, fields),
                    lastList |-> lastList, lastListing |-> resIdx.lastListing]
     ELSE IF plan.targetType = "address"
       THEN IF listing = NullObj
              THEN [reply |-> Text("no_address_match"),
                    lastList |-> lastList, lastListing |-> lastListing]
              ELSE [reply |-> formatDetails(listing.row, fields),
                    lastList |-> lastList, lastListing |-> listing]
     ELSE [reply |-> Text("which_listing"), lastList |-> lastList, lastListing |-> lastListing]

\* intent 'details'
ExecuteDetails(plan, userText) ==
  LET fields == IF plan.fields.t = "array" THEN plan.fields.a ELSE <<>>
      resIdx == ensureListingFromIndex(plan.index.n)
      listing == findListingByAddressLike(userText)
  IN IF plan.targetType = "index" /\ plan.index.t = "number"
       THEN IF resIdx.error # NullObj
              THEN [reply |-> resIdx.error,
                    lastList |-> lastList, lastListing |-> resIdx.lastListing]
              ELSE [reply |-> formatDetails(resIdx.row, fields),
                    lastList |-> lastList, lastListing |-> resIdx.lastListing]
     ELSE IF plan.targetType = "address"
       THEN IF listing = NullObj
              THEN [reply |-> Text("no_address_match"),
                    lastList |-> lastList, lastListing |-> lastListing]
              ELSE [reply |-> formatDetails(listing.row, fields),
                    lastList |-> lastList, lastListing |-> listing]
     ELSE IF plan.targetType = "last"
       THEN IF lastListing = NullObj
              THEN [reply |-> Text("no_last_listing"),
                    lastList |-> lastList, lastListing |-> lastListing]
              ELSE [reply |-> formatDetails(lastListing.row, fields),
                    lastList |-> lastList, lastListing |-> lastListing]
     ELSE [reply |-> Text("which_listing"), lastList |-> lastList, lastListing |-> lastListing]

\* Mutant of Execute: the first write wins; a Result List that is not empty
\* and a Last Listing that is set are kept.
ExecuteFirstWriteWins(plan, userText) ==
  LET out == IF plan.intent = "list" THEN ExecuteList(plan)
             ELSE IF plan.intent = "details" THEN ExecuteDetails(plan, userText)
             ELSE [reply |-> Text("unknown"), lastList |-> lastList, lastListing |-> lastListing]
  IN [reply |-> out.reply,
      lastList |-> IF Len(lastList) > 0 THEN lastList ELSE out.lastList,
      lastListing |-> IF lastListing # NullObj THEN lastListing ELSE out.lastListing]

\* the handler from the parsed plan to res.json({ reply })
Execute(plan, userText) ==
  LET intent == IF plan.intent = "" THEN "unknown" ELSE plan.intent
  IN IF intent = "list" THEN ExecuteList(plan)
     ELSE IF intent = "details" THEN ExecuteDetails(plan, userText)
     ELSE IF intent = "small_talk"
       THEN [reply |-> Text("small_talk"), lastList |-> lastList, lastListing |-> lastListing]
     ELSE [reply |-> Text("unknown"), lastList |-> lastList, lastListing |-> lastListing]

\* The execution throws inside the try block: destructuring a null predicate
\* in applyFilter, reached for a row that passes the predicates before it.
Throws(plan) ==
  /\ plan.intent = "list" /\ plan.filters.t = "array"
  /\ \E i \in 0..(Len(mlsRows) - 1), k \in DOMAIN plan.filters.a :
       /\ plan.filters.a[k] = JNull
       /\ \A j \in 1..(k - 1) : plan.filters.a[j] # JNull /\ applyFilter(RowAt(i), plan.filters.a[j])

\* The execution throws inside the try block while the reply text is built:
\* String(f) on an unprintable field, in the lines of formatList or in
\* formatDetails.  lastList and lastListing have been assigned by then.
ThrowsInFormat(plan, out) ==
  /\ plan.fields.t = "array"
  /\ \E k \in DOMAIN plan.fields.a : plan.fields.a[k] = JUnprintable
  /\ out.reply.t \in {"list", "details"}

Idle == [pc |-> "idle", userText |-> <<>>]

NoCall == [fn |-> "none"]

(***************************************************************************)
(* History of the conversations.  The program keeps none of it: hist       *)
(* records, beside the program, which conversation each response went to,  *)
(* which conversation's request wrote the Result List, and the order in    *)
(* which overlapping requests arrived and returned.  It is recorded only   *)
(* in behaviours that start with HistStart.                                *)
(***************************************************************************)
NoHist == [on |-> FALSE]

HistStart ==
  [on |-> TRUE, to |-> "", writer |-> "", shown |-> [c \in Clients |-> <<>>],
   before |-> [c \in Clients |-> {}], first |-> NullObj, second |-> NullObj,
   calls |-> [c \in Clients |-> 0]]

\* the conversations with a request suspended at the planner call
InFlight == {c \in Clients : reqs[c].pc = "awaiting"}

\* what the execution of a plan assigns: lastList, lastListing or neither
WriteKind(plan, out) ==
  IF plan.intent = "list" /\ ~plan.countOnly THEN "list"
  ELSE IF plan.intent = "details" /\ plan.targetType \in {"index", "address"} /\ out.reply.t = "details"
    THEN "listing"
  ELSE "none"

\* the request of c is over: it is no longer ahead of any other request, and
\* a pair waiting for it is dissolved
Unpair(h, c) ==
  LET h1 == [h EXCEPT !.before = [e \in Clients |-> h.before[e] \ {c}]]
  IN IF h1.first # NullObj /\ h1.first.other = c
       THEN [h1 EXCEPT !.first = NullObj, !.second = NullObj]
       ELSE h1

\* the handler of c issues a planner call: calls[c] counts the calls of the
\* request of c that is running or ran last
HistCall(h, c) == [h EXCEPT !.calls[c] = @ + 1]

\* a request of c issues its planner call and is suspended: the requests in
\* flight arrived before it
HistArrive(c) ==
  IF ~hist.on THEN hist
  ELSE HistCall([hist EXCEPT !.before[c] = InFlight, !.calls[c] = 0], c)

\* c is answered before the planner call
HistAnswer(c) == IF ~hist.on THEN hist ELSE [hist EXCEPT !.to = c, !.calls[c] = 0]

\* the request of c ends after the planner call without running a plan
HistFail(c) == IF ~hist.on THEN hist ELSE Unpair([hist EXCEPT !.to = c], c)

\* the request of c ends without a response
HistLost(c) == IF ~hist.on THEN hist ELSE Unpair(hist, c)

\* the request of c ran plan and was answered.  shown[c] is the numbered
\* address lines of the list reply c received last.  first is the latest write
\* made while another request was in flight; second is the write of the
\* same kind by that other request.
HistDone(c, plan, userText, out) ==
  LET kind == WriteKind(plan, out)
      others == InFlight \ {c}
      value == IF kind = "list" THEN out.lastList ELSE out.lastListing
      h0 == [hist EXCEPT !.to = c,
                         !.writer = IF kind = "list" THEN c ELSE @,
                         !.shown[c] = IF kind # "list" THEN @
                                      ELSE IF out.reply.t = "list" THEN out.reply.lines
                                      ELSE <<>>]
      h1 == [h0 EXCEPT !.before = [e \in Clients |-> h0.before[e] \ {c}]]
  IN IF ~hist.on THEN hist
     ELSE IF kind = "none" THEN Unpair(h0, c)
     ELSE IF /\ h1.first # NullObj /\ h1.second = NullObj
             /\ h1.first.other = c /\ h1.first.kind = kind
       THEN [h1 EXCEPT !.second = [c |-> c, kind |-> kind, plan |-> plan,
                                   userText |-> userText, value |-> value]]
     ELSE IF others # {}
       THEN LET d == CHOOSE e \in others : TRUE
            IN [h1 EXCEPT !.first = [c |-> c, kind |-> kind, other |-> d, value |-> value,
                                     arrivedFirst |-> d \notin hist.before[c]],
                          !.second = NullObj]
     ELSE [h1 EXCEPT !.first = NullObj, !.second = NullObj]

\* A request arrives: the handler runs up to its first return or to the fetch.
Receive(c, content) ==
  /\ reqs[c].pc = "idle"
  /\ LET userText == Trim(OrElse(content, <<>>))
     IN IF content = NumberContent
          \* content.trim is not a function: thrown before any try block
          THEN /\ reqs' = [reqs EXCEPT ![c] = [pc |-> "unanswered", userText |-> <<>>]]
               /\ UNCHANGED <<sent, hist, browser>>
        ELSE IF ~hasKey
          THEN /\ sent' = [plan |-> NullObj, res |-> Error("OPENAI_API_KEY is missing in .env")]
               /\ hist' = HistAnswer(c)
               /\ UNCHANGED reqs
        ELSE IF IsGreeting(userText)
          THEN /\ sent' = [plan |-> NullObj, res |-> Reply(Text("greeting"))]
               /\ hist' = HistAnswer(c)
               /\ UNCHANGED reqs
        ELSE /\ reqs' = [reqs EXCEPT ![c] = [pc |-> "awaiting", userText |-> userText]]
             /\ hist' = HistArrive(c)
             /\ UNCHANGED sent
  /\ UNCHANGED <<mlsRows, mlsColumns, lastList, lastListing, hasKey, call, browser>>

\* Mutant of PlannerFails: the failure path also clears the Result List.
PlannerFailsResets(c) ==
  /\ reqs[c].pc = "awaiting"
  /\ reqs' = [reqs EXCEPT ![c] = Idle]
  /\ sent' = [plan |-> NullObj, res |-> Error("Failed to interpret query.")]
  /\ hist' = HistFail(c)
  /\ lastList' = <<>>
  /\ UNCHANGED <<mlsRows, mlsColumns, lastListing, hasKey, call, browser>>

\* Mutant of PlannerFails: the failed call is issued again.
PlannerFailsRetries(c) ==
  /\ reqs[c].pc = "awaiting"
  /\ hist' = IF hist.on THEN HistCall(hist, c) ELSE hist
  /\ UNCHANGED <<mlsRows, mlsColumns, lastList, lastListing, hasKey, reqs, sent, call, browser>>

\* fetch rejects, response.json() throws, or JSON.parse(content) throws
PlannerFails(c) ==
  /\ reqs[c].pc = "awaiting"
  /\ reqs' = [reqs EXCEPT ![c] = Idle]
  /\ sent' = [plan |-> NullObj, res |-> Error("Failed to interpret query.")]
  /\ hist' = HistFail(c)
  /\ UNCHANGED <<mlsRows, mlsColumns, lastList, lastListing, hasKey, call, browser>>

\* the upstream answers with a non-success status
PlannerNotOk(c, msg) ==
  /\ reqs[c].pc = "awaiting"
  /\ reqs' = [reqs EXCEPT ![c] = Idle]
  /\ sent' = [plan |-> NullObj, res |-> Error(IF msg # "" THEN msg ELSE "OpenAI API error")]
  /\ hist' = HistFail(c)
  /\ UNCHANGED <<mlsRows, mlsColumns, lastList, lastListing, hasKey, call, browser>>

\* Mutant of PlannerOk: the list is cut with splice instead of slice, which
\* removes the listed rows from the array filterRows returned; for empty
\* filters that array is mlsRows itself.
PlannerOkSplices(c, plan) ==
  /\ reqs[c].pc = "awaiting"
  /\ plan # PlanNull /\ ~Throws(plan)
  /\ \E out \in {Execute(plan, reqs[c].userText)} :
       /\ reqs' = [reqs EXCEPT ![c] = Idle]
       /\ sent' = [plan |-> plan, res |-> Reply(out.reply)]
       /\ lastList' = out.lastList
       /\ lastListing' = out.lastListing
       /\ hist' = HistDone(c, plan, reqs[c].userText, out)
       /\ mlsRows' = IF WriteKind(plan, out) = "list" /\ plan.filters \in {JNull, JArr(<<>>)}
                       THEN SubSeq(mlsRows, Len(out.lastList) + 1, Len(mlsRows))
                       ELSE mlsRows
  /\ UNCHANGED <<mlsColumns, hasKey, call, browser>>

\* the upstream answers with a plan; the handler runs to its response
PlannerOk(c, plan) ==
  /\ reqs[c].pc = "awaiting"
  /\ IF plan = PlanNull
       \* plan.intent throws outside any try block: no response is sent
       THEN /\ reqs' = [reqs EXCEPT ![c] = [pc |-> "unanswered", userText |-> reqs[c].userText]]
            /\ hist' = HistLost(c)
            /\ UNCHANGED <<sent, lastList, lastListing>>
       ELSE IF Throws(plan)
         \* caught by the catch around the execution
         THEN /\ reqs' = [reqs EXCEPT ![c] = Idle]
              /\ sent' = [plan |-> plan,
                          res |-> Error("Server error while answering your question.")]
              /\ hist' = HistFail(c)
              /\ UNCHANGED <<lastList, lastListing>>
       ELSE \E out \in {Execute(plan, reqs[c].userText)} :
               /\ reqs' = [reqs EXCEPT ![c] = Idle]
               /\ lastList' = out.lastList
               /\ lastListing' = out.lastListing
               /\ IF ThrowsInFormat(plan, out)
                    \* caught by the same catch, after the assignments
                    THEN /\ sent' = [plan |-> plan,
                                     res |-> Error("Server error while answering your question.")]
                         /\ hist' = HistFail(c)
                    ELSE /\ sent' = [plan |-> plan, res |-> Reply(out.reply)]
                         /\ hist' = HistDone(c, plan, reqs[c].userText, out)
  /\ UNCHANGED <<mlsRows, mlsColumns, hasKey, call, browser>>

Init ==
  /\ mlsRows \in Stores
  /\ mlsColumns = ColumnsOf(mlsRows)
  /\ lastList = <<>>
  /\ lastListing = NullObj
  /\ hasKey \in BOOLEAN
  /\ reqs = [c \in Clients |-> Idle]
  /\ sent = NullObj
  /\ call = NoCall
  /\ hist = NoHist
  /\ browser = NoBrowser

Next ==
  \/ \E c \in Clients, content \in Contents : Receive(c, content)
  \/ \E c \in Clients : PlannerFails(c)
  \/ \E c \in Clients, msg \in {"", "upstream message"} : PlannerNotOk(c, msg)
  \/ \E c \in Clients, plan \in Plans : PlannerOk(c, plan)

Spec == Init /\ [][Next]_vars

(***************************************************************************)
(* Direct calls of the pure helpers on bounded inputs                      *)
(***************************************************************************)
KnownOps == {"eq", "neq", "contains", "not_contains", "gt", "ge", "lt", "le", "exists", "not_exists"}

NumericOps == {"gt", "ge", "lt", "le"}

FnOps == KnownOps \cup {"like", ""}

FnFields ==
  { Null, <<>>, <<" ">>,
    <<"a","d","d","r","e","s","s">>,
    <<"x","y","z">>,
    <<"c","o","n","s","t","r","u","c","t","o","r">>,
    <<"b","e","d","s">>,
    <<"B","e","d","s">>,
    <<"p","r","i","c","e">>,
    ListPrice,
    <<"z","i","p">>,
    <<"u","n","i","t">>,
    <<"i","t">>,
    <<"c","i","t","y">> }

FnValues == { JNum(3), JNum(600), JNull, JStr(<<>>), JStr(<<"a","b","c">>), JStr(<<"M","a","i","n">>) }

FnPreds ==
  { Pred(<<"b","e","d","s">>, "ge", JNum(3)),
    Pred(<<"p","r","i","c","e">>, "le", JNum(600)),
    Pred(StreetName, "contains", JStr(<<"m","a","i","n">>)),
    Pred(PostalCode, "not_exists", JNull),
    Pred(<<"x","y","z">>, "neq", JNull),
    Pred(City, "like", JStr(<<"L","A">>)) }

FnFilters == {<<>>} \cup {<<p>> : p \in FnPreds} \cup {<<p, q>> : p \in FnPreds, q \in FnPreds}

FnTexts ==
  { <<>>,
    <<"?">>,
    <<"z","z","z">>,
    <<"m","a","i","n">>,
    <<"1","2"," ","M","a","i","n",","," ","C","A">>,
    <<"1","2"," ","M","a","i","n",","," ","C","A",","," ","9">>,
    <<"1","2"," ","m","a","i","n"," "," ","c","a","!">>,
    <<"a","t"," ","3","4"," ","M","a","i","n",","," ","C","A">>,
    <<"L","A",","," ","C","A">> }

AddrCols ==
  <<StreetNumberNumeric, StreetNumber, StreetDirPrefix, StreetName, StreetSuffix,
    City, StateOrProvince, PostalCode>>

\* rows with every combination of empty and present address components, and
\* a row that has none of the address columns
AddressRows ==
  { Row(1, AddrCols, <<n, s, d, nm, sf, c, st, z>>) :
      n \in {<<>>, <<"1","2">>}, s \in {<<>>, <<"1","2","A">>}, d \in {<<>>, <<"N">>},
      nm \in {<<>>, <<"M","a","i","n">>}, sf \in {<<>>, <<"S","t">>},
      c \in {<<>>, <<"L","A">>}, st \in {<<>>, <<"N","V">>}, z \in {<<>>, <<"9","1">>} }
  \cup { Row(2, <<ListPrice>>, <<<<"5">>>>) }

CallInputs(rows) ==
  { [fn |-> "applyFilter", rowIndex |-> i, filter |-> Pred(f, op, v), done |-> FALSE] :
      i \in 0..(Len(rows) - 1), f \in FnFields, op \in FnOps, v \in FnValues }
  \cup { [fn |-> "getColumnNameFromUserField", userField |-> f, done |-> FALSE] : f \in FnFields }
  \cup { [fn |-> "findListingByAddressLike", text |-> t, done |-> FALSE] : t \in FnTexts }
  \cup { [fn |-> "server.js findListingByAddressLike", text |-> t, done |-> FALSE] : t \in FnTexts }
  \cup { [fn |-> "filterRows", filters |-> fs, done |-> FALSE] : fs \in FnFilters }
  \cup { [fn |-> "formatAddress", row |-> r, done |-> FALSE] : r \in AddressRows }

CallApplyFilter ==
  /\ call.fn = "applyFilter" /\ ~call.done
  /\ call' = [fn |-> call.fn, rowIndex |-> call.rowIndex, filter |-> call.filter, done |-> TRUE,
              pass |-> applyFilter(RowAt(call.rowIndex), call.filter)]
  /\ UNCHANGED <<mlsRows, mlsColumns, lastList, lastListing, hasKey, reqs, sent, hist, browser>>

CallResolve ==
  /\ call.fn = "getColumnNameFromUserField" /\ ~call.done
  /\ call' = [fn |-> call.fn, userField |-> call.userField, done |-> TRUE,
              colName |-> getColumnNameFromUserField(call.userField)]
  /\ UNCHANGED <<mlsRows, mlsColumns, lastList, lastListing, hasKey, reqs, sent, hist, browser>>

CallFind ==
  /\ call.fn = "findListingByAddressLike" /\ ~call.done
  /\ call' = [fn |-> call.fn, text |-> call.text, done |-> TRUE,
              listing |-> findListingByAddressLike(call.text)]
  /\ UNCHANGED <<mlsRows, mlsColumns, lastList, lastListing, hasKey, reqs, sent, hist, browser>>

CallServerFind ==
  /\ call.fn = "server.js findListingByAddressLike" /\ ~call.done
  /\ call' = [fn |-> call.fn, text |-> call.text, done |-> TRUE,
              listing |-> ServerFindListingByAddressLike(call.text)]
  /\ UNCHANGED <<mlsRows, mlsColumns, lastList, lastListing, hasKey, reqs, sent, hist, browser>>

CallFormatAddress ==
  /\ call.fn = "formatAddress" /\ ~call.done
  /\ call' = [fn |-> call.fn, row |-> call.row, done |-> TRUE, text |-> formatAddress(call.row)]
  /\ UNCHANGED <<mlsRows, mlsColumns, lastList, lastListing, hasKey, reqs, sent, hist, browser>>

CallFilterRows ==
  /\ call.fn = "filterRows" /\ ~call.done
  /\ call' = [fn |-> call.fn, filters |-> call.filters, done |-> TRUE,
              rows |-> filterRows(call.filters), repeated |-> FALSE, again |-> <<>>]
  /\ UNCHANGED <<mlsRows, mlsColumns, lastList, lastListing, hasKey, reqs, sent, hist, browser>>

\* filterRows is called once more with the same predicates
CallFilterRowsAgain ==
  /\ call.fn = "filterRows" /\ call.done /\ ~call.repeated
  /\ call' = [call EXCEPT !.repeated = TRUE, !.again = filterRows(call.filters)]
  /\ UNCHANGED <<mlsRows, mlsColumns, lastList, lastListing, hasKey, reqs, sent, hist, browser>>

InitFn ==
  /\ mlsRows \in Stores
  /\ mlsColumns = ColumnsOf(mlsRows)
  /\ lastList = <<>>
  /\ lastListing = NullObj
  /\ hasKey = TRUE
  /\ reqs = [c \in Clients |-> Idle]
  /\ sent = NullObj
  /\ call \in CallInputs(mlsRows)
  /\ hist = NoHist
  /\ browser = NoBrowser

NextFn ==
  \/ CallApplyFilter
  \/ CallResolve
  \/ CallFind
  \/ CallServerFind
  \/ CallFilterRows
  \/ CallFilterRowsAgain
  \/ CallFormatAddress

SpecFn == InitFn /\ [][NextFn]_vars

(***************************************************************************)
(* List production on stores large enough for the limits to bite           *)
(***************************************************************************)
\* server.js caps a list at 10 rows when everything is asked for each listing
FullDataLimit == 10

\* server.js: the limit the list intents pass to formatListOutput
ServerListLimit(fields) ==
  IF \E i \in DOMAIN fields : ToLowerCase(StringOf(fields[i])) = <<"a","l","l","_","d","a","t","a">>
    THEN FullDataLimit ELSE DefaultLimit

\* server.js formatListOutput: wantsAllData
WantsAllData(fields) ==
  \E i \in DOMAIN fields :
    ToLowerCase(StringOf(fields[i])) \in
      { <<"a","l","l","_","d","a","t","a">>,
        <<"f","u","l","l","_","p","r","o","f","i","l","e">>,
        <<"a","l","l","_","i","n","f","o">>,
        <<"f","u","l","l","_","p","r","o","p","e","r","t","y","_","p","r","o","f","i","l","e">> }

\* server.js formatListOutput: the value lastList has afterwards and the
\* number of listings rendered
formatListOutput(rows, limit, fields) ==
  LET effectiveLimit == IF WantsAllData(fields)
                          THEN (IF limit < FullDataLimit THEN limit ELSE FullDataLimit)
                          ELSE limit
      limited == Slice(rows, effectiveLimit)
  IN [lastList |-> MapSeq(LAMBDA row : [rowIndex |-> IndexOf(mlsRows, row),
                                        displayAddress |-> formatAddress(row)], limited),
      shown |-> Len(limited)]

\* a store of n rows
BigStore(n) == [i \in 1..n |-> Row(1000 + i, <<City>>, <<<<"L","A">>>>)]

ListSizes ==
  {0, 1, FullDataLimit - 1, FullDataLimit, FullDataLimit + 1,
   DefaultLimit - 1, DefaultLimit, DefaultLimit + 1}

ListLimits ==
  {JNull, JNum(-1), JNum(0), JNum(1), JNum(FullDataLimit), JNum(DefaultLimit),
   JNum(DefaultLimit + 1)}

ListFields ==
  { JNull, JArr(<<>>), JArr(<<<<"p","r","i","c","e">>>>),
    JArr(<<<<"a","l","l","_","d","a","t","a">>>>),
    JArr(<<<<"F","u","l","l","_","P","r","o","f","i","l","e">>>>) }

ListCalls ==
  { [fn |-> "formatList", plan |-> Plan("list", JArr(<<>>), f, "", JNull, l, FALSE),
     done |-> FALSE] : l \in ListLimits, f \in ListFields }
  \cup { [fn |-> "formatListOutput", fields |-> f, done |-> FALSE] : f \in ListFields }

\* a list plan is executed by the planner-based handler
CallList ==
  /\ call.fn = "formatList" /\ ~call.done
  /\ \E out \in {ExecuteList(call.plan)} :
       /\ lastList' = out.lastList
       /\ call' = [fn |-> call.fn, plan |-> call.plan, done |-> TRUE, shown |-> out.reply.n]
  /\ UNCHANGED <<mlsRows, mlsColumns, lastListing, hasKey, reqs, sent, hist, browser>>

\* a list intent of server.js is executed (filterRowsForList with no criteria)
CallServerList ==
  /\ call.fn = "formatListOutput" /\ ~call.done
  /\ \E fields \in {IF call.fields.t = "array" THEN call.fields.a ELSE <<>>} :
       \E out \in {formatListOutput(mlsRows, ServerListLimit(fields), fields)} :
         /\ lastList' = out.lastList
         /\ call' = [fn |-> call.fn, fields |-> call.fields, done |-> TRUE, shown |-> out.shown]
  /\ UNCHANGED <<mlsRows, mlsColumns, lastListing, hasKey, reqs, sent, hist, browser>>

InitList ==
  /\ mlsRows \in {BigStore(n) : n \in ListSizes}
  /\ mlsColumns = ColumnsOf(mlsRows)
  /\ lastList = <<>>
  /\ lastListing = NullObj
  /\ hasKey = TRUE
  /\ reqs = [c \in Clients |-> Idle]
  /\ sent = NullObj
  /\ call \in ListCalls
  /\ hist = NoHist
  /\ browser = NoBrowser

NextList == CallList \/ CallServerList

SpecList == InitList /\ [][NextList]_vars

(***************************************************************************)
(* Two conversations against one server process, with their history        *)
(***************************************************************************)
\* the plans of two browsing conversations: two different lists, "#1", "#2",
\* a lookup by address and a pronoun reference
SessionPlans ==
  { Plan("list", JArr(f), JNull, "", JNull, JNull, FALSE) : f \in {FilterAll, FilterBeds} }
  \cup { Plan("details", JNull, JNull, "index", JNum(n), JNull, FALSE) : n \in 1..2 }
  \cup { Plan("details", JNull, JNull, tt, JNull, JNull, FALSE) : tt \in {"address", "last"} }

SessionContents == { <<"1","2"," ","M","a","i","n",","," ","C","A">> }

InitSessions ==
  /\ mlsRows = Store1
  /\ mlsColumns = ColumnsOf(mlsRows)
  /\ lastList = <<>>
  /\ lastListing = NullObj
  /\ hasKey = TRUE
  /\ reqs = [c \in Clients |-> Idle]
  /\ sent = NullObj
  /\ call = NoCall
  /\ hist = HistStart
  /\ browser = NoBrowser

NextSessions ==
  \/ \E c \in Clients, content \in SessionContents : Receive(c, content)
  \/ \E c \in Clients : PlannerFails(c)
  \/ \E c \in Clients : PlannerNotOk(c, "")
  \/ \E c \in Clients, plan \in SessionPlans : PlannerOk(c, plan)

SpecSessions == InitSessions /\ [][NextSessions]_vars

(***************************************************************************)
(* The page script (public/app.js).  browser holds the text of the input,  *)
(* the disabled flag of the submit button, messageHistory as the sequence  *)
(* of its roles after the system message, and the number of fetch calls    *)
(* of the page that have not settled.  enterSends tells the script with    *)
(* the keydown handler from the one without.                               *)
(***************************************************************************)
\* most fetch calls of one page pending at once
MaxInFlight == 3

\* most messages pushed to messageHistory
MaxHistory == 4

\* longest text in the input
MaxInput == 2

\* the user types a character into the input, which is never disabled
TypeChar(ch) ==
  /\ browser.open /\ Len(browser.input) < MaxInput
  /\ browser' = [browser EXCEPT !.input = Append(@, ch)]
  /\ UNCHANGED <<mlsRows, mlsColumns, lastList, lastListing, hasKey, reqs, sent, call, hist>>

\* the submit listener up to its await: an empty text returns at once;
\* otherwise the message is pushed, the input cleared, the button disabled
\* and fetch called
SubmitHandler ==
  IF Trim(browser.input) = <<>>
    THEN browser' = browser
    ELSE browser' = [browser EXCEPT !.history = Append(@, "user"),
                                    !.input = <<>>,
                                    !.disabled = TRUE,
                                    !.inFlight = @ + 1]

\* a click on Send: a disabled button fires no submit event
ClickSend ==
  /\ browser.open /\ ~browser.disabled
  /\ browser.inFlight < MaxInFlight /\ Len(browser.history) < MaxHistory
  /\ SubmitHandler
  /\ UNCHANGED <<mlsRows, mlsColumns, lastList, lastListing, hasKey, reqs, sent, call, hist>>

\* Enter without Shift in the input: the keydown listener dispatches a submit
\* event on the form; without the listener the key puts a line break, which
\* is whitespace, into the text
PressEnter ==
  /\ browser.open
  /\ browser.inFlight < MaxInFlight /\ Len(browser.history) < MaxHistory
  /\ IF browser.enterSends
       THEN SubmitHandler
       ELSE browser' = [browser EXCEPT !.input = IF Len(@) < MaxInput THEN Append(@, " ") ELSE @]
  /\ UNCHANGED <<mlsRows, mlsColumns, lastList, lastListing, hasKey, reqs, sent, call, hist>>

\* a fetch of the page settles and the rest of its listener runs: a reply is
\* pushed to messageHistory, an {error} body or a rejection is only shown,
\* and the finally block enables the button
Settle(outcome) ==
  /\ browser.open /\ browser.inFlight > 0
  /\ browser' = [browser EXCEPT
                   !.inFlight = @ - 1,
                   !.disabled = FALSE,
                   !.history = IF outcome = "reply" THEN Append(@, "assistant") ELSE @]
  /\ UNCHANGED <<mlsRows, mlsColumns, lastList, lastListing, hasKey, reqs, sent, call, hist>>

InitBrowser ==
  /\ mlsRows = Store0
  /\ mlsColumns = ColumnsOf(mlsRows)
  /\ lastList = <<>>
  /\ lastListing = NullObj
  /\ hasKey = TRUE
  /\ reqs = [c \in Clients |-> Idle]
  /\ sent = NullObj
  /\ call = NoCall
  /\ hist = NoHist
  /\ browser \in { [open |-> TRUE, enterSends |-> e, input |-> <<>>, disabled |-> FALSE,
                    history |-> <<>>, inFlight |-> 0] : e \in BOOLEAN }

NextBrowser ==
  \/ \E ch \in {"a", " "} : TypeChar(ch)
  \/ ClickSend
  \/ PressEnter
  \/ \E outcome \in {"reply", "error", "rejected"} : Settle(outcome)

SpecBrowser == InitBrowser /\ [][NextBrowser]_vars

(***************************************************************************)
(* A planner call that never returns: fetch has no timeout, so the request *)
(* of conversation A, once suspended, stays suspended.  The planner calls  *)
(* of conversation B return.                                               *)
(***************************************************************************)
StallContents == SessionContents \cup { <<"H","i">>, NumberContent }

StallPlans == SessionPlans \cup { PlanNullFilter, PlanNull }

\* the planner call of c returns, with a plan or with a failure
PlannerReturns(c) ==
  \/ PlannerFails(c)
  \/ \E msg \in {"", "upstream message"} : PlannerNotOk(c, msg)
  \/ \E plan \in StallPlans : PlannerOk(c, plan)

InitStall ==
  /\ mlsRows = Store1
  /\ mlsColumns = ColumnsOf(mlsRows)
  /\ lastList = <<>>
  /\ lastListing = NullObj
  /\ hasKey \in BOOLEAN
  /\ reqs = [c \in Clients |-> Idle]
  /\ sent = NullObj
  /\ call = NoCall
  /\ hist = NoHist
  /\ browser = NoBrowser

NextStall ==
  \/ \E c \in Clients, content \in StallContents : Receive(c, content)
  \/ PlannerReturns("B")

\* the event loop runs the continuation of a planner call that has returned
SpecStall == InitStall /\ [][NextStall]_vars /\ WF_vars(PlannerReturns("B"))

(***************************************************************************)
(* Properties                                                              *)
(***************************************************************************)
IndexPlan(n) == Plan("details", JNull, JNull, "index", JNum(n), JNull, FALSE)

LastPlan == Plan("details", JNull, JNull, "last", JNull, JNull, FALSE)

RowIndices == 0..(Len(mlsRows) - 1)

\* the positions of the rows that pass every predicate
Matching(filters) ==
  {i \in RowIndices : \A k \in DOMAIN filters : applyFilter(RowAt(i), filters[k])}

\* C1: resolving "#N" against a Result List of length L succeeds exactly when
\* 1 <= N <= L; with N = 0, N > L or an empty Result List the request is
\* answered by a normal reply carrying the descriptive failure message, never
\* by an {error} response.  (An index lookup leaves the Result List as it is,
\* so the list after the answer is the list the lookup ran against.)
C1_IndexLookup ==
  \A n \in 0..(MaxIndex + 1) :
    (sent # NullObj /\ sent.plan = IndexPlan(n)) =>
      /\ sent.res.kind = "reply" /\ sent.res.status = 200
      /\ (sent.res.body.t = "details") <=> (1 <= n /\ n <= Len(lastList))
      /\ (Len(lastList) = 0) => (sent.res.body = [t |-> "text", msg |-> "no_recent_list"])
      /\ (Len(lastList) > 0 /\ (n = 0 \/ n > Len(lastList)))
           => (sent.res.body = [t |-> "text", msg |-> "no_listing_at", index |-> n])

\* a "#N" with N beyond a non-empty list was answered by the failure reply
C1_Witness ==
  /\ sent # NullObj /\ sent.plan # NullObj /\ sent.plan.targetType = "index"
  /\ sent.res.kind = "reply" /\ sent.res.body.t = "text"
  /\ sent.res.body.msg = "no_listing_at"
  /\ Len(lastList) > 0 /\ sent.res.body.index > Len(lastList)

\* the number of rows slice(0, limit) keeps out of count rows
Kept(limit, count) ==
  LET l == IF limit.t = "number" /\ limit.n # 0 THEN limit.n ELSE DefaultLimit
  IN IF l < 0 THEN (IF count + l < 0 THEN 0 ELSE count + l)
     ELSE (IF l > count THEN count ELSE l)

\* list holds the first rows, in store order, of those passing the filters
IsListingOf(list, filters, limit) ==
  LET m == Matching(filters)
  IN /\ Len(list) = Kept(limit, Cardinality(m))
     /\ \A k \in DOMAIN list :
          /\ list[k].rowIndex \in m
          /\ Cardinality({i \in m : i < list[k].rowIndex}) = k - 1
          /\ list[k].displayAddress = formatAddress(RowAt(list[k].rowIndex))

\* the request just answered rendered a list
RenderedList ==
  /\ sent # NullObj /\ sent.plan # NullObj /\ sent.res.kind = "reply"
  /\ sent.plan.intent = "list" /\ ~sent.plan.countOnly

\* C2: after a list-producing request completes, the Result List is exactly
\* the (row index, synthesized address) pairs of the truncated filtered rows
\* of that request, in store order; nothing of the earlier Result List
\* survives, also when the new list is empty.
C2_ListReplaced ==
  RenderedList =>
    IsListingOf(lastList,
                IF sent.plan.filters.t = "array" THEN sent.plan.filters.a ELSE <<>>,
                sent.plan.limit)

\* a filtered list (rows 0 and 3 of the store) has replaced the Result List
C2_Witness ==
  /\ RenderedList /\ sent.res.body.t = "list"
  /\ Len(lastList) = 2 /\ lastList[1].rowIndex = 0 /\ lastList[2].rowIndex = 3

\* C3: every rowIndex held in the Result List, and the rowIndex of Last
\* Listing when it is set, is a valid position of the loaded rows.
C3_IndicesValid ==
  /\ \A k \in DOMAIN lastList : lastList[k].rowIndex \in RowIndices
  /\ lastListing # NullObj => lastListing.rowIndex \in RowIndices

\* the whole store is listed and its last row is the Last Listing
C3_Witness ==
  /\ Len(mlsRows) > 1 /\ Len(lastList) = Len(mlsRows)
  /\ lastList[Len(lastList)].rowIndex = Len(mlsRows) - 1
  /\ lastListing # NullObj /\ lastListing.rowIndex = Len(mlsRows) - 1

\* C4: filterRows returns exactly the rows for which every predicate passes,
\* in store order, and all rows for an empty predicate list; a second call
\* with the same predicates returns the same rows in the same order.
C4_FilterRows ==
  (call.fn = "filterRows" /\ call.done) =>
    LET m == Matching(call.filters)
    IN /\ Len(call.rows) = Cardinality(m)
       /\ \A k \in DOMAIN call.rows :
            \E i \in m : call.rows[k] = RowAt(i) /\ Cardinality({j \in m : j < i}) = k - 1
       /\ (call.filters = <<>>) => (call.rows = mlsRows)
       /\ call.repeated => (call.again = call.rows)

\* two different predicates kept two of four rows, twice
C4_Witness ==
  /\ call.fn = "filterRows" /\ call.done /\ call.repeated /\ Len(call.filters) = 2
  /\ call.filters[1] # call.filters[2]
  /\ Len(call.rows) = 2 /\ Len(mlsRows) = 4

\* The resolution rules as stated: exact column, else synonym-table entry,
\* else column equal ignoring case, else first column containing the field,
\* else null; a null or empty field resolves to null.
RuleResolve(field) ==
  IF field \in {Null, Undefined, <<>>} THEN Null
  ELSE LET f == Trim(field)
           lower == ToLowerCase(f)
           same == {i \in DOMAIN mlsColumns : ToLowerCase(mlsColumns[i]) = lower}
           within == {i \in DOMAIN mlsColumns : Includes(ToLowerCase(mlsColumns[i]), lower)}
           First(S) == CHOOSE i \in S : \A j \in S : i <= j
       IN IF \E i \in DOMAIN mlsColumns : mlsColumns[i] = f THEN f
          ELSE IF \E i \in DOMAIN synonyms : synonyms[i][1] = lower
            THEN synonyms[CHOOSE i \in DOMAIN synonyms : synonyms[i][1] = lower][2]
          ELSE IF same # {} THEN mlsColumns[First(same)]
          ELSE IF within # {} THEN mlsColumns[First(within)]
          ELSE Null

AppliedFilter == call.fn = "applyFilter" /\ call.done

\* C5: a predicate whose column cannot be resolved (no match, null or empty
\* column, the "address" pseudo-field) fails for every row and every operator.
C5_UnresolvedColumnFails ==
  (AppliedFilter /\ RuleResolve(call.filter.column) = Null) => (call.pass = FALSE)

\* C6: a predicate whose column resolves and whose operator is not one of the
\* ten known operators passes for every row, whatever the cell and the value.
C6_UnknownOperatorPasses ==
  (AppliedFilter /\ RuleResolve(call.filter.column) # Null /\ call.filter.op \notin KnownOps)
    => (call.pass = TRUE)

\* an unknown operator on a resolved column with a non-matching value passed
C6_Witness ==
  /\ AppliedFilter /\ call.filter.op = "like" /\ call.filter.column = <<"p","r","i","c","e">>
  /\ call.filter.value = JStr(<<"a","b","c">>)
  /\ Get(RowAt(call.rowIndex), ListPrice) = <<"5","0","0">>
  /\ call.pass

\* text that reads as a number: a non-empty string of digits
NumericText(s) == s \notin NotStrings /\ s # <<>> /\ \A i \in DOMAIN s : s[i] \in DigitSet

NumericJson(v) == v.t = "number" \/ (v.t = "string" /\ NumericText(v.s))

\* C7: for gt, ge, lt and le a cell that is not a number, or a predicate value
\* that is not a number, makes the predicate fail.
C7_NumericOpsFailClosed ==
  (/\ AppliedFilter /\ call.filter.op \in NumericOps
   /\ RuleResolve(call.filter.column) # Null
   /\ \/ ~NumericText(Get(RowAt(call.rowIndex), RuleResolve(call.filter.column)))
      \/ ~NumericJson(call.filter.value))
    => (call.pass = FALSE)

\* C8: the resolver returns what the rules give, first match wins, and null
\* when no rule matches.
C8_ResolverPriority ==
  (call.fn = "getColumnNameFromUserField" /\ call.done)
    => (call.colName = RuleResolve(call.userField))

\* the normalization of the variant that served the call
Normalized(s) ==
  IF call.fn = "findListingByAddressLike" THEN normalizeAddressLike(s) ELSE NormalizeNeedle(s)

NormAddr(i) == Normalized(formatAddress(RowAt(i)))

\* the rows whose normalized address contains q or is contained in q
Overlapping(q) == {i \in RowIndices : Includes(NormAddr(i), q) \/ Includes(q, NormAddr(i))}

\* the first row of S, in store order, among those of shortest normalized address
Tightest(S) ==
  CHOOSE i \in S : \A j \in S :
    \/ Len(NormAddr(i)) < Len(NormAddr(j))
    \/ (Len(NormAddr(i)) = Len(NormAddr(j)) /\ i <= j)

IsLookupOf(listing, S) ==
  IF S = {} THEN listing = NullObj
  ELSE listing = [rowIndex |-> Tightest(S), row |-> RowAt(Tightest(S)),
                  displayAddress |-> formatAddress(RowAt(Tightest(S)))]

FoundListing ==
  call.fn \in {"findListingByAddressLike", "server.js findListingByAddressLike"} /\ call.done

\* C9: the address lookup returns the first shortest-address row among all
\* rows whose normalized address contains the normalized query or is contained
\* in it, and reports no match only when no row qualifies.
C9_AddressLookup ==
  FoundListing => IsLookupOf(call.listing, Overlapping(Normalized(call.text)))

\* What the two-way lookup does: for a non-empty query text it returns the
\* first shortest-address row among the rows whose normalized address is not
\* empty and contains the normalized query or is contained in it, and reports
\* no match when there is none; for an empty query text it reports no match.
TwoWayLookup ==
  (call.fn = "findListingByAddressLike" /\ call.done) =>
    IF call.text = <<>> THEN call.listing = NullObj
    ELSE IsLookupOf(call.listing,
                    {i \in Overlapping(Normalized(call.text)) : NormAddr(i) # <<>>})

\* What the one-way lookup of server.js does, on stores whose formatted
\* addresses are already whitespace-normalized: the same, over the rows whose
\* normalized address contains the normalized query.
OneWayLookup ==
  (call.fn = "server.js findListingByAddressLike" /\ call.done) =>
    IF call.text = <<>> THEN call.listing = NullObj
    ELSE IsLookupOf(call.listing,
                    {i \in RowIndices : NormAddr(i) # <<>>
                                         /\ Includes(NormAddr(i), Normalized(call.text))})

\* the two-way lookup resolved a query equal to the shorter of two overlapping
\* addresses to the shorter-address row (row 1), although row 0 comes first
TwoWayLookupReached ==
  /\ call.fn = "findListingByAddressLike" /\ call.done
  /\ call.text = <<"1","2"," ","M","a","i","n",","," ","C","A">>
  /\ Len(mlsRows) = 4 /\ Includes(NormAddr(0), Normalized(call.text))
  /\ call.listing # NullObj /\ call.listing.rowIndex = 1

\* C10: when a "#N" lookup succeeds, Last Listing is the Result List entry at
\* position N-1 (its row index, its display address and the row at that
\* index), the reply is about that row, and a pronoun follow-up issued next
\* resolves to that same row.
C10_IndexSetsLastListing ==
  \A n \in 1..(MaxIndex + 1) :
    (sent # NullObj /\ sent.plan = IndexPlan(n) /\ n <= Len(lastList)) =>
      /\ lastListing = [rowIndex |-> lastList[n].rowIndex,
                        displayAddress |-> lastList[n].displayAddress,
                        row |-> RowAt(lastList[n].rowIndex)]
      /\ sent.res.body = formatDetails(RowAt(lastList[n].rowIndex), <<>>)
      /\ ExecuteDetails(LastPlan, <<>>).reply = formatDetails(RowAt(lastList[n].rowIndex), <<>>)
      /\ ExecuteDetails(LastPlan, <<>>).lastListing = lastListing

\* "#2" of a filtered list was answered: Last Listing is row 3 of the store
C10_Witness ==
  /\ sent # NullObj /\ sent.plan = IndexPlan(2) /\ Len(lastList) = 2
  /\ lastList[2].rowIndex = 3
  /\ lastListing # NullObj /\ lastListing.rowIndex = 3
  /\ sent.res.body.t = "details" /\ sent.res.body.row = RowAt(3)

\* C11: a pronoun ("last") reference is answered by a normal reply: the
\* details of the current Last Listing when one is set, and the descriptive
\* failure sentence when none is set; it leaves Last Listing as it is.
C11_PronounLookup ==
  (sent # NullObj /\ sent.plan = LastPlan) =>
    /\ sent.res.kind = "reply" /\ sent.res.status = 200
    /\ IF lastListing = NullObj
         THEN sent.res.body = Text("no_last_listing")
         ELSE /\ sent.res.body = formatDetails(lastListing.row, <<>>)
              /\ lastListing.row = RowAt(lastListing.rowIndex)

\* a pronoun reference was answered from the Last Listing an address lookup set
C11_Witness ==
  /\ sent # NullObj /\ sent.plan = LastPlan
  /\ lastListing # NullObj /\ lastListing.rowIndex = 1
  /\ sent.res.body.t = "details" /\ sent.res.body.row = RowAt(1)

\* the limit of a list call: 10 when a full-data rendering is asked of
\* formatListOutput, else the limit the plan gives, else 100
StatedLimit ==
  IF call.fn = "formatListOutput"
    THEN (IF call.fields.t = "array" /\ WantsAllData(call.fields.a)
            THEN FullDataLimit ELSE DefaultLimit)
  ELSE IF call.plan.limit.t = "number" THEN call.plan.limit.n ELSE DefaultLimit

ListDone == call.fn \in {"formatList", "formatListOutput"} /\ call.done

\* C12: a list-producing request truncates the rows to the limit (100 when
\* the plan gives none, 10 for a full-data rendering) before storing and
\* rendering them: the Result List holds at most that many entries, and as
\* many as were rendered.
C12_ListWithinLimit ==
  ListDone => (Len(lastList) <= StatedLimit /\ call.shown = Len(lastList))

\* What the lists do hold: the first rows up to the limit, where a plan limit
\* of 0 counts as none and a negative plan limit -k drops the last k rows.
ListLength ==
  ListDone =>
    /\ call.shown = Len(lastList)
    /\ Len(lastList) =
         IF call.fn = "formatList" /\ call.plan.limit.t = "number" /\ call.plan.limit.n < 0
           THEN (IF Len(mlsRows) + call.plan.limit.n < 0 THEN 0
                 ELSE Len(mlsRows) + call.plan.limit.n)
         ELSE LET l == IF call.fn = "formatList" /\ call.plan.limit = JNum(0)
                         THEN DefaultLimit ELSE StatedLimit
              IN IF Len(mlsRows) < l THEN Len(mlsRows) ELSE l

\* 101 rows were cut to the default 100
DefaultLimitReached ==
  /\ ListDone /\ call.fn = "formatList" /\ call.plan.limit = JNull
  /\ Len(mlsRows) = DefaultLimit + 1 /\ Len(lastList) = DefaultLimit

\* 11 rows were cut to 10 by a full-data request to formatListOutput
FullDataLimitReached ==
  /\ ListDone /\ call.fn = "formatListOutput"
  /\ Len(mlsRows) = FullDataLimit + 1 /\ Len(lastList) = FullDataLimit

\* C13: no request is left unanswered by an exception escaping the handler.
C13_EveryRequestAnswered == \A c \in Clients : reqs[c].pc # "unanswered"

\* What does hold: an exception thrown while the plan is executed is answered
\* with the generic {error} response.
CaughtInTry ==
  (sent # NullObj /\ sent.plan = PlanNullFilter /\ Len(mlsRows) > 0) =>
    sent.res = Error("Server error while answering your question.")

CaughtInTryReached ==
  /\ sent # NullObj /\ sent.plan = PlanNullFilter /\ sent.res.kind = "error"
  /\ Len(lastList) > 0

\* a request that was waiting for the planner is answered without a plan
UpstreamFailureStep ==
  \E c \in Clients :
    /\ reqs[c].pc = "awaiting" /\ reqs'[c].pc = "idle"
    /\ sent'.plan = NullObj

\* C14: when the upstream call fails, returns a non-success status or returns
\* unparseable content, the request ends with a status-500 {error} response
\* carrying the upstream message or a generic message, and the step changes
\* neither the Result List nor Last Listing.
C14_UpstreamFailure ==
  [][UpstreamFailureStep =>
       /\ sent'.res.status = 500 /\ sent'.res.kind = "error"
       /\ sent'.res.body.msg \in
            {"upstream message", "OpenAI API error", "Failed to interpret query."}
       /\ lastList' = lastList /\ lastListing' = lastListing]_vars

\* an upstream error was answered while a list and a listing were held
C14_Witness ==
  /\ sent # NullObj /\ sent.plan = NullObj
  /\ sent.res = Error("Failed to interpret query.")
  /\ Len(lastList) > 0 /\ lastListing # NullObj

KeyMissingResponse ==
  [plan |-> NullObj, res |-> Error("OPENAI_API_KEY is missing in .env")]

\* C15: with no API key every chat request is answered with status 500 and
\* the error "OPENAI_API_KEY is missing in .env"; no request reaches the
\* planner call and the conversation state stays as it was at start.
C15_MissingKey ==
  ~hasKey =>
    /\ \A c \in Clients : reqs[c].pc = "idle"
    /\ sent \in {NullObj, KeyMissingResponse}
    /\ lastList = <<>> /\ lastListing = NullObj

\* What does hold with no API key: no request reaches the planner call, every
\* response sent is the key error, and the conversation state is untouched.
MissingKeyNoCall ==
  ~hasKey =>
    /\ \A c \in Clients : reqs[c].pc \in {"idle", "unanswered"}
    /\ sent \in {NullObj, KeyMissingResponse}
    /\ lastList = <<>> /\ lastListing = NullObj

MissingKeyReached == ~hasKey /\ sent = KeyMissingResponse /\ Len(mlsRows) > 0

\* the request just answered ran a plan on a store of no rows
AnsweredOnEmptyStore == Len(mlsRows) = 0 /\ sent # NullObj /\ sent.plan # NullObj

\* C16: with zero rows loaded every list request is answered by the reply
\* "There are 0 listings that match your criteria.", every index lookup and
\* every address lookup by a descriptive not-found reply; none is answered
\* by an {error} response.
C16_ZeroRows ==
  AnsweredOnEmptyStore =>
    /\ (sent.plan.intent = "list") => (sent.res = Reply([t |-> "count", n |-> 0]))
    /\ (sent.plan.intent = "details" /\ sent.plan.targetType = "index"
          /\ sent.plan.index.t = "number")
         => (sent.res = Reply(Text("no_recent_list")))
    /\ (sent.plan.intent = "details" /\ sent.plan.targetType = "address")
         => (sent.res = Reply(Text("no_address_match")))
    /\ lastList = <<>> /\ lastListing = NullObj

\* a filtered list request on the empty store got the zero-listings reply
C16_Witness ==
  /\ AnsweredOnEmptyStore /\ sent.plan.intent = "list" /\ ~sent.plan.countOnly
  /\ sent.plan.filters = JArr(FilterBeds)
  /\ sent.res = Reply([t |-> "count", n |-> 0])

\* the content is one of the greeting utterances: hi, hello, hey or hola in
\* any case, with whitespace around it
Utterance(content) ==
  \E w \in { <<"h","i">>, <<"h","e","l","l","o">>, <<"h","e","y">>, <<"h","o","l","a">> } :
    \E a \in 0..Len(content), b \in 0..Len(content) :
      /\ a + Len(w) + b = Len(content)
      /\ \A i \in 1..a : IsSpace(content[i])
      /\ \A i \in 1..Len(w) : LowerChar(content[a + i]) = w[i]
      /\ \A i \in 1..b : IsSpace(content[a + Len(w) + i])

\* the step answers with the canned help reply, sends nothing to the planner
\* and leaves the Result List and Last Listing as they are
CannedReplyOnly ==
  /\ sent' # NullObj /\ sent'.res = Reply(Text("greeting"))
  /\ reqs' = reqs
  /\ lastList' = lastList /\ lastListing' = lastListing

\* C17 as stated: a request whose last user message is a greeting utterance
\* is answered with the canned help reply without a planner call and leaves
\* the Result List and Last Listing unchanged.
C17_GreetingStated ==
  [][\A c \in Clients, content \in Contents :
       (Receive(c, content) /\ Utterance(content)) => CannedReplyOnly]_vars

\* C17 (amended): the same, when the API key is configured.
C17_Greeting ==
  [][\A c \in Clients, content \in Contents :
       (Receive(c, content) /\ Utterance(content) /\ hasKey) => CannedReplyOnly]_vars

\* a greeting was answered while a list and a listing were held
C17_Witness ==
  /\ sent # NullObj /\ sent.res = Reply(Text("greeting"))
  /\ Len(lastList) > 0 /\ lastListing # NullObj
  /\ \A c \in Clients : reqs[c].pc = "idle"

\* the cell of a row, empty when the row has no such column
Cell(row, col) == IF col \in DOMAIN row.cells THEN row.cells[col] ELSE <<>>

\* the street components of a row that are present, the number counted once
StreetWords(row) ==
  LET num == IF Cell(row, StreetNumberNumeric) # <<>> THEN Cell(row, StreetNumberNumeric)
             ELSE Cell(row, StreetNumber)
  IN SelectSeq(<<num, Cell(row, StreetDirPrefix), Cell(row, StreetName), Cell(row, StreetSuffix)>>,
               LAMBDA w : w # <<>>)

\* the street line (when it has a word), the city, the state (or its default)
\* and the zip that are present
AddressParts(row) ==
  (IF Len(StreetWords(row)) > 0 THEN 1 ELSE 0) + (IF Cell(row, City) # <<>> THEN 1 ELSE 0)
    + 1 + (IF Cell(row, PostalCode) # <<>> THEN 1 ELSE 0)

CountOf(ch, s) == Cardinality({i \in DOMAIN s : s[i] = ch})

\* C18: whichever optional components are empty, formatAddress returns a text
\* with no leading, trailing or doubled separator: every comma follows a
\* component and is followed by exactly one space, every space is followed by
\* a component, there is exactly one ", " between parts and exactly one space
\* between street words.
C18_NoStraySeparators ==
  (call.fn = "formatAddress" /\ call.done) =>
    LET s == call.text
        Sep(ch) == ch \in {" ", ","}
    IN /\ Len(s) > 0 /\ ~Sep(s[1]) /\ ~Sep(s[Len(s)])
       /\ \A i \in 1..(Len(s) - 1) :
            /\ (s[i] = ",") => (s[i + 1] = " ")
            /\ (s[i] = " ") => ~Sep(s[i + 1])
       /\ CountOf(",", s) = AddressParts(call.row) - 1
       /\ CountOf(" ", s) = (AddressParts(call.row) - 1)
                              + (IF Len(StreetWords(call.row)) > 0
                                   THEN Len(StreetWords(call.row)) - 1 ELSE 0)

\* a row with number, name and zip but no prefix, suffix, city or state gave
\* "12 Main, CA, 91"
C18_Witness ==
  /\ call.fn = "formatAddress" /\ call.done
  /\ call.text = <<"1","2"," ","M","a","i","n",","," ","C","A",","," ","9","1">>
  /\ Cell(call.row, City) = <<>> /\ Cell(call.row, StreetSuffix) = <<>>

\* C19: the conversation state is not isolated per conversation.  A "#N"
\* reference answered to any conversation gives the details of the listing on
\* line N of the list reply sent last, to whichever conversation that reply
\* went; so a conversation that was shown one list can get, for "#N", a row
\* of the list another conversation produced afterwards.
C19_NoIsolation ==
  \A n \in 1..2 :
    (/\ hist.on /\ sent # NullObj /\ sent.plan = IndexPlan(n)
     /\ hist.writer # "" /\ n <= Len(hist.shown[hist.writer])) =>
      /\ sent.res.body.t = "details"
      /\ formatAddress(sent.res.body.row) = hist.shown[hist.writer][n]

\* A was shown a list, B was then shown a different one, and A's "#2" was
\* answered with line 2 of B's list, not line 2 of its own
C19_Witness ==
  /\ hist.on /\ hist.to = "A" /\ hist.writer = "B"
  /\ sent # NullObj /\ sent.plan = IndexPlan(2)
  /\ Len(hist.shown["A"]) >= 2 /\ Len(hist.shown["B"]) >= 2
  /\ hist.shown["A"][2] # hist.shown["B"][2]
  /\ sent.res.body.t = "details"
  /\ formatAddress(sent.res.body.row) = hist.shown["B"][2]
  /\ formatAddress(sent.res.body.row) # hist.shown["A"][2]

\* two requests were suspended at the planner call at the same time and both
\* have returned with a write of the same kind
BothReturned == hist.on /\ hist.second # NullObj

\* C20: after two overlapping list-producing requests have both completed,
\* the Result List is the list of the plan of the request that returned last,
\* whichever of the two arrived first; after two overlapping single-listing
\* lookups, Last Listing is the listing the lookup that returned last resolved.
C20_LastReturnWins ==
  BothReturned =>
    LET plan == hist.second.plan
    IN IF hist.second.kind = "list"
         THEN IsListingOf(lastList, plan.filters.a, plan.limit)
       ELSE IF plan.targetType = "index"
         THEN /\ plan.index.n \in 1..Len(lastList)
              /\ lastListing = [rowIndex |-> lastList[plan.index.n].rowIndex,
                                displayAddress |-> lastList[plan.index.n].displayAddress,
                                row |-> RowAt(lastList[plan.index.n].rowIndex)]
       ELSE IsLookupOf(lastListing, Overlapping(Normalized(hist.second.userText)))

\* B's list request returned first although A's had arrived first; A's
\* returned last and its list, a different one, is the Result List
C20_Witness ==
  /\ BothReturned /\ hist.second.kind = "list"
  /\ hist.first.c = "B" /\ hist.second.c = "A" /\ ~hist.first.arrivedFirst
  /\ hist.first.value # hist.second.value
  /\ lastList = hist.second.value
  /\ Len(lastList) > 0

\* the plans that render a list
ListPlans == {p \in Plans \ {PlanNull} : p.intent = "list" /\ ~p.countOnly /\ ~Throws(p)}

\* the Result List is the whole list of some list plan, never a part of one
WholeList ==
  \/ lastList = <<>>
  \/ \E p \in ListPlans :
       IsListingOf(lastList, IF p.filters.t = "array" THEN p.filters.a ELSE <<>>, p.limit)

\* C21: the Result List is replaced and the reply built in one step.  When a
\* list reply has been sent, its numbered lines are, in order, the addresses
\* of the entries the Result List holds at that moment, whatever other
\* requests are in flight; and in every state the Result List is the whole
\* list of one plan, so no request sees a partially replaced list.
C21_ReplyIsResultList ==
  /\ WholeList
  /\ (RenderedList /\ sent.res.body.t = "list") =>
       /\ sent.res.body.n = Len(lastList)
       /\ Len(sent.res.body.lines) = Len(lastList)
       /\ \A k \in DOMAIN lastList :
            /\ sent.res.body.lines[k] = lastList[k].displayAddress
            /\ sent.res.body.lines[k] = formatAddress(RowAt(lastList[k].rowIndex))

\* a truncated list reply of two lines was sent while the request of the
\* other conversation was suspended at the planner call
C21_Witness ==
  /\ RenderedList /\ sent.res.body.t = "list"
  /\ sent.plan.limit = JNum(2) /\ Len(lastList) = 2 /\ Len(mlsRows) > 2
  /\ \E c \in Clients : reqs[c].pc = "awaiting"

\* the request of conversation A is suspended at a planner call that never returns
Stalled == reqs["A"].pc = "awaiting"

\* C22: while the planner call of A never returns, every request of B whose
\* own planner call returns is answered, and no step in which A stays
\* suspended and no request of B ends changes the Result List or Last Listing.
C22_StallIsolated ==
  /\ (Stalled /\ reqs["B"].pc = "awaiting") ~> (reqs["B"].pc = "idle")
  /\ [][ (Stalled /\ (lastList' # lastList \/ lastListing' # lastListing)) =>
           (reqs["B"].pc = "awaiting" /\ reqs'["B"].pc = "idle") ]_vars

\* the suspended request of B ends, with or without a response
OthersNotBlocked == (Stalled /\ reqs["B"].pc = "awaiting") ~> (reqs["B"].pc # "awaiting")

\* the stalled request writes nothing: the state changes only with the end of a request of B
StalledNeverWrites ==
  [][ (Stalled /\ (lastList' # lastList \/ lastListing' # lastListing)) =>
        (reqs["B"].pc = "awaiting" /\ reqs'["B"].pc = "idle") ]_vars

\* B was answered with a list while A is stalled
StallReached ==
  /\ Stalled /\ reqs["B"].pc = "idle"
  /\ RenderedList /\ Len(lastList) > 0

\* C23: no step of any chat request, whatever its outcome, changes the row
\* sequence or the column names: the store stays the one that was loaded.
C23_StoreFixed == [][mlsRows' = mlsRows /\ mlsColumns' = mlsColumns]_vars

\* an unfiltered list, for which filterRows returns the store array itself,
\* was truncated to two entries and the store still has its four rows
C23_Witness ==
  /\ RenderedList /\ sent.plan.filters = JArr(FilterAll) /\ sent.plan.limit = JNum(2)
  /\ Len(lastList) = 2
  /\ mlsRows = Store1 /\ mlsColumns = ColumnsOf(Store1)
  /\ \E c \in Clients : reqs[c].pc = "unanswered"

\* the planner call of the request answered last failed
FailureAnswered ==
  /\ sent # NullObj /\ sent.plan = NullObj /\ sent.res.kind = "error"
  /\ sent.res.body.msg \in {"Failed to interpret query.", "OpenAI API error"}

\* C24: a chat request issues at most one planner call.  A suspended request
\* has issued exactly one; a request answered with the error of a failed call
\* has issued one and is over.
C24_OneCall ==
  hist.on =>
    \A c \in Clients :
      /\ hist.calls[c] <= 1
      /\ reqs[c].pc = "awaiting" => hist.calls[c] = 1
      /\ (FailureAnswered /\ hist.to = c /\ reqs[c].pc = "idle") => hist.calls[c] = 1

\* the planner call of A failed with an error status: A was answered with the
\* error after one call, with nothing in flight
C24_Witness ==
  /\ hist.on /\ FailureAnswered /\ sent.res.body.msg = "OpenAI API error"
  /\ hist.to = "A" /\ reqs["A"].pc = "idle" /\ hist.calls["A"] = 1
  /\ InFlight = {}

\* the step answers a list request that is not count-only
AnswersListPlan ==
  /\ sent' # NullObj /\ sent'.plan # NullObj
  /\ sent'.plan.intent = "list" /\ ~sent'.plan.countOnly
  /\ \E c \in Clients : reqs[c].pc = "awaiting" /\ reqs'[c].pc = "idle"

\* C25: the Result List changes only in a step that answers a list request
\* with a normal reply; count-only requests, lookups, small talk, unknown
\* intents, greetings and every step that ends in an {error} response leave
\* it as it was.
C25_ListFrame ==
  [][ lastList' # lastList => (AnswersListPlan /\ sent'.res.kind = "reply") ]_vars

\* What does hold: the Result List changes only in a step of a list request
\* that is not count-only.
ListWrittenByListPlan == [][ lastList' # lastList => AnswersListPlan ]_vars

\* a list request was answered with the {error} response and the Result List
\* is the list it wrote
ErrorAfterListWrite ==
  /\ sent # NullObj /\ sent.plan = PlanUnprintableList /\ sent.res.kind = "error"
  /\ IsListingOf(lastList, <<>>, JNull) /\ Len(lastList) > 0

\* the step ends the request of c with a lookup, by index in the Result List
\* or by address in the store, that found a listing
LookupSucceeds(c) ==
  /\ reqs[c].pc = "awaiting" /\ reqs'[c].pc = "idle"
  /\ sent' # NullObj /\ sent'.plan # NullObj /\ sent'.plan.intent = "details"
  /\ \/ /\ sent'.plan.targetType = "index" /\ sent'.plan.index.t = "number"
        /\ sent'.plan.index.n \in 1..Len(lastList)
        /\ lastListing'.rowIndex = lastList[sent'.plan.index.n].rowIndex
     \/ /\ sent'.plan.targetType = "address"
        /\ Overlapping(Normalized(reqs[c].userText)) # {}
        /\ lastListing'.rowIndex \in Overlapping(Normalized(reqs[c].userText))

\* C26: Last Listing changes only in a step of a single-listing lookup, by
\* index or by address, that found a listing; list requests, count-only
\* requests, pronoun references and lookups that find nothing leave it as it was.
C26_ListingFrame ==
  [][ lastListing' # lastListing => \E c \in Clients : LookupSucceeds(c) ]_vars

\* "#N" beyond the end of a list that is not empty was answered with the
\* failure sentence, and the Last Listing set before is still there
C26_Witness ==
  /\ sent # NullObj /\ sent.plan # NullObj /\ sent.plan.intent = "details"
  /\ sent.plan.targetType = "index" /\ sent.plan.index.t = "number"
  /\ Len(lastList) > 0 /\ sent.plan.index.n > Len(lastList)
  /\ sent.res.kind = "reply" /\ sent.res.body.t = "text"
  /\ lastListing # NullObj

\* C27: the stored snapshots agree with the store.  Every Result List entry
\* names a row of the store and carries that row's synthesized address; a
\* Last Listing that is set holds the store row at its row index and that
\* row's synthesized address.
C27_SnapshotsAgree ==
  /\ \A k \in DOMAIN lastList :
       /\ lastList[k].rowIndex \in RowIndices
       /\ lastList[k].displayAddress = formatAddress(RowAt(lastList[k].rowIndex))
  /\ lastListing # NullObj =>
       /\ lastListing.rowIndex \in RowIndices
       /\ lastListing.row = RowAt(lastListing.rowIndex)
       /\ lastListing.displayAddress = formatAddress(lastListing.row)

\* Last Listing was set by "#2" of a filtered list, whose second entry is
\* row 3 of the store, and a later list has replaced the Result List
C27_Witness ==
  /\ lastListing # NullObj /\ lastListing.rowIndex = 3
  /\ RenderedList /\ Len(lastList) = 1 /\ lastList[1].rowIndex = 0

\* the query of the address lookup is the synthesized address of a row
QueryIsAddressOfRow == \E i \in RowIndices : call.text = formatAddress(RowAt(i))

\* C28: an address lookup whose query is the synthesized address of some row
\* returns a row with that same synthesized address, also when the store has
\* rows whose addresses are contained in the query.
C28_ExactAddressWins ==
  (call.fn = "findListingByAddressLike" /\ call.done /\ QueryIsAddressOfRow) =>
    /\ call.listing # NullObj
    /\ formatAddress(call.listing.row) = call.text

\* What does hold: the row returned has an address that contains the query
\* or is contained in it, after normalization, and no such row has a shorter
\* address that is not empty.
ShortestOverlapWins ==
  (call.fn = "findListingByAddressLike" /\ call.done /\ QueryIsAddressOfRow
   /\ Normalized(call.text) # <<>>) =>
    /\ call.listing # NullObj
    /\ call.listing.rowIndex \in Overlapping(Normalized(call.text))
    /\ \A j \in Overlapping(Normalized(call.text)) :
         NormAddr(j) # <<>> => Len(NormAddr(call.listing.rowIndex)) <= Len(NormAddr(j))

\* the cell of the row for the column the predicate resolves to is the empty string
EmptyCell ==
  /\ getColumnNameFromUserField(call.filter.column) \notin NotStrings
  /\ Get(RowAt(call.rowIndex), getColumnNameFromUserField(call.filter.column)) = <<>>

\* C29: a numeric predicate (gt, ge, lt, le) never passes a row whose cell
\* for the resolved column is the empty string.
C29_EmptyCellExcluded ==
  (AppliedFilter /\ call.filter.op \in NumericOps /\ EmptyCell) => (call.pass = FALSE)

\* What does hold: on an empty cell a numeric predicate compares the number 0
\* with the number of the value.
EmptyCellIsZero ==
  (AppliedFilter /\ call.filter.op \in NumericOps /\ EmptyCell /\ call.filter.value.t = "number") =>
    (call.pass = CASE call.filter.op = "gt" -> 0 > call.filter.value.n
                   [] call.filter.op = "ge" -> 0 >= call.filter.value.n
                   [] call.filter.op = "lt" -> 0 < call.filter.value.n
                   [] OTHER -> 0 <= call.filter.value.n)

\* C30: the page has at most one chat request in flight, whether the user
\* clicks Send or presses Enter.
C30_OneInFlight == browser.open => browser.inFlight <= 1

\* What does hold: without the keydown listener the page has at most one
\* request in flight, and the button is disabled while it is.
ClickOneInFlight ==
  (browser.open /\ ~browser.enterSends) =>
    /\ browser.inFlight <= 1
    /\ browser.inFlight = 1 => browser.disabled

\* with the keydown listener, two requests of the page are in flight
EnterSendsSecond == browser.open /\ browser.enterSends /\ browser.inFlight = 2

====
